---- MODULE Spec2Model ----
(***************************************************************************)
(* Model of nft-rescue's integrity and provenance engine:                  *)
(*   - the manifest store        (src/manifest.ts)                         *)
(*   - the resilient downloader  (src/downloader.ts)                       *)
(*   - the backup orchestrator   (src/cli.ts, backup / backupNFT)          *)
(*   - the storage classifier    (src/storage-classifier.ts)               *)
(*                                                                         *)
(* Strings whose characters matter (file names, chain and wallet           *)
(* segments) are sequences of ASCII codes, so that startsWith, sort() and  *)
(* the sanitising regular expression are computed as JavaScript computes   *)
(* them.  Fixed literals are abbreviated to their first letter:            *)
(* "manifest" is "m", "json" is "j", "run" is "r", "index" is "i".         *)
(***************************************************************************)
EXTENDS Integers, Sequences, FiniteSets, TLC

VARIABLES
  fs,        \* the output root: [manifests, history, runs: name -> content, gallery]
  now,       \* the wall clock read by new Date()
  writes,    \* number of writeManifestWithHistory calls made
  last,      \* arguments and snapshot of the store at the last completed call
  dl,        \* one downloadAsset call: its locals and what it met
  bk,        \* one backup run of the command line: its locals
  cls,       \* one classifyUrl call: its argument and its result
  an,        \* one analyzeNFTStorage call: its arguments, the report and its status
  ext,       \* one getExtensionFromUrl call: its arguments and its result
  wr,        \* the writeManifestWithHistory calls in progress, step by step
  fw         \* one fetchWithRetry call: its locals and the answers it met

storeVars == <<fs, now, writes, last>>
vars == <<fs, now, writes, last, dl, bk, cls, an, ext, wr, fw>>

(***************************************************************************)
(* Bounds                                                                  *)
(***************************************************************************)
MaxWrites == 6
MaxTime == 1
MaxAssets == 2
MaxCalls == 3
MaxSteppedWrites == 5
MaxWriters == 2
MaxStepped == 1
MaxStall == 2

(***************************************************************************)
(* Characters                                                              *)
(***************************************************************************)
SP == 32
DASH == 45
DOT == 46
SLASH == 47
BSLASH == 92
USCORE == 95

NoFile == [exists |-> FALSE]

(***************************************************************************)
(* String helpers, as the String.prototype methods compute them           *)
(***************************************************************************)
StartsWith(s, p) ==
  /\ Len(p) <= Len(s)
  /\ SubSeq(s, 1, Len(p)) = p

EndsWith(s, p) ==
  /\ Len(p) <= Len(s)
  /\ SubSeq(s, Len(s) - Len(p) + 1, Len(s)) = p

Includes(s, p) ==
  \E i \in 1..(Len(s) - Len(p) + 1) : SubSeq(s, i, i + Len(p) - 1) = p

RECURSIVE TrimStart(_)
TrimStart(s) ==
  IF s # <<>> /\ Head(s) = SP THEN TrimStart(Tail(s)) ELSE s

RECURSIVE TrimEnd(_)
TrimEnd(s) ==
  IF s # <<>> /\ s[Len(s)] = SP THEN TrimEnd(SubSeq(s, 1, Len(s) - 1)) ELSE s

Trim(s) == TrimEnd(TrimStart(s))

\* s < t in the code-unit order used by Array.prototype.sort()
RECURSIVE StrLess(_, _)
StrLess(s, t) ==
  IF t = <<>> THEN FALSE
  ELSE IF s = <<>> THEN TRUE
  ELSE IF Head(s) # Head(t) THEN Head(s) < Head(t)
  ELSE StrLess(Tail(s), Tail(t))

\* Array.prototype.sort() on a set of distinct strings (a directory listing)
RECURSIVE SortNames(_)
SortNames(S) ==
  IF S = {} THEN <<>>
  ELSE LET m == CHOOSE x \in S : \A y \in S \ {x} : StrLess(x, y)
       IN <<m>> \o SortNames(S \ {m})

RECURSIVE Decimal(_)
Decimal(n) ==
  IF n < 10 THEN <<48 + n>> ELSE Decimal(n \div 10) \o <<48 + (n % 10)>>


\* Array.prototype.sort() on an array of strings (insertion into place)
RECURSIVE InsertSorted(_, _)
InsertSorted(x, sorted) ==
  IF sorted = <<>> THEN <<x>>
  ELSE IF StrLess(x, Head(sorted)) THEN <<x>> \o sorted
  ELSE <<Head(sorted)>> \o InsertSorted(x, Tail(sorted))

RECURSIVE SortStrings(_)
SortStrings(arr) ==
  IF arr = <<>> THEN <<>> ELSE InsertSorted(Head(arr), SortStrings(Tail(arr)))

Range(seq) == {seq[i] : i \in DOMAIN seq}

(***************************************************************************)
(* JavaScript objects are sequences of <<key, value>> pairs in property    *)
(* order.  A string-valued optional property that is unset holds Absent.   *)
(* JSON.stringify drops the unset properties; the text of a file is the    *)
(* remaining sequence of pairs.                                            *)
(***************************************************************************)
Absent == <<0>>

Get(obj, key) ==
  IF \E i \in DOMAIN obj : obj[i][1] = key
  THEN obj[CHOOSE i \in DOMAIN obj : obj[i][1] = key][2]
  ELSE Absent

RECURSIVE DropAbsent(_)
DropAbsent(obj) ==
  IF obj = <<>> THEN <<>>
  ELSE IF Head(obj)[2] = Absent THEN DropAbsent(Tail(obj))
  ELSE <<Head(obj)>> \o DropAbsent(Tail(obj))

\* JSON.stringify(manifest, null, 2) for a BackupManifest
JsonStringifyManifest(m) ==
  [ wellFormed |-> TRUE,
    doc |-> [ walletAddress |-> m.walletAddress,
              ensName       |-> m.ensName,
              chainName     |-> m.chainName,
              chainId       |-> m.chainId,
              backupDate    |-> m.backupDate,
              summary       |-> m.summary,
              nfts          |-> [i \in DOMAIN m.nfts |-> DropAbsent(m.nfts[i])] ] ]

Ok(v) == [ok |-> TRUE, value |-> v]
Throw(e) == [ok |-> FALSE, error |-> e]

\* a parse that reads what it can of a damaged file and never throws
JsonParseLenient(raw) == Ok(raw.doc)

\* JSON.parse(raw) as BackupManifest
JsonParseManifest(raw) ==
  IF raw.wellFormed THEN Ok(raw.doc) ELSE Throw("SyntaxError")

(***************************************************************************)
(* manifest.ts                                                             *)
(***************************************************************************)
MANIFEST_HISTORY_LIMIT == 2

SafeChar(c) ==
  \/ c \in 97..122
  \/ c \in 65..90
  \/ c \in 48..57
  \/ c \in {DOT, USCORE, DASH}

\* value.replace(/[^a-zA-Z0-9._-]+/g, '_')
RECURSIVE ReplaceUnsafeRuns(_, _)
ReplaceUnsafeRuns(s, inRun) ==
  IF s = <<>> THEN <<>>
  ELSE IF SafeChar(Head(s)) THEN <<Head(s)>> \o ReplaceUnsafeRuns(Tail(s), FALSE)
  ELSE (IF inRun THEN <<>> ELSE <<USCORE>>) \o ReplaceUnsafeRuns(Tail(s), TRUE)

sanitizeManifestSegment(value) ==
  LET trimmed == Trim(value) IN
  IF \/ trimmed = <<>>
     \/ Includes(trimmed, <<SLASH>>)
     \/ Includes(trimmed, <<BSLASH>>)
     \/ Includes(trimmed, <<DOT, DOT>>)
  THEN Throw("Invalid manifest segment")
  ELSE Ok(ReplaceUnsafeRuns(trimmed, FALSE))

\* "manifest" is abbreviated to "m"
getManifestBaseName(chainName, walletAddress) ==
  LET safeChain == sanitizeManifestSegment(chainName)
      safeWallet == sanitizeManifestSegment(walletAddress)
  IN IF ~safeChain.ok THEN safeChain
     ELSE IF ~safeWallet.ok THEN safeWallet
     ELSE Ok(<<109, DOT>> \o safeChain.value \o <<DOT>> \o safeWallet.value)

\* ".json" is abbreviated to ".j"
JsonExt == <<DOT, 106>>

\* the path below outputDir: the directory and the file name
getManifestPath(chainName, walletAddress) ==
  LET baseName == getManifestBaseName(chainName, walletAddress)
  IN IF ~baseName.ok THEN baseName
     ELSE Ok([dir |-> "manifests", name |-> baseName.value \o JsonExt])

\* date.toISOString().replace(/:/g, '-'): a fixed-width string, here the
\* one digit of the clock followed by the closing "Z"
formatTimestampForFilename(date) == <<48 + date, 90>>

Suffix(attempt) == IF attempt = 0 THEN <<>> ELSE <<DASH>> \o Decimal(attempt)

\* the loop of getUniqueHistoryPath: the first attempt whose name is free
RECURSIVE UniqueHistoryFrom(_, _, _, _)
UniqueHistoryFrom(historyDir, baseName, timestamp, attempt) ==
  LET filename == baseName \o <<DOT>> \o timestamp \o Suffix(attempt) \o JsonExt
  IN IF filename \notin DOMAIN historyDir THEN filename
     ELSE UniqueHistoryFrom(historyDir, baseName, timestamp, attempt + 1)

getUniqueHistoryPath(historyDir, baseName, timestamp) ==
  UniqueHistoryFrom(historyDir, baseName, timestamp, 0)

Restrict(f, S) == [x \in S |-> f[x]]

pruneHistorySnapshots(historyDir, baseName, keep) ==
  LET matching == {n \in DOMAIN historyDir :
                     StartsWith(n, baseName \o <<DOT>>) /\ EndsWith(n, JsonExt)}
      snapshots == SortNames(matching)
  IN IF Len(snapshots) <= keep THEN historyDir
     ELSE LET toRemove == Range(SubSeq(snapshots, 1, Len(snapshots) - keep))
          IN Restrict(historyDir, DOMAIN historyDir \ toRemove)


COLON == 58

getNftId(manifest, entry) ==
  Decimal(manifest.chainId) \o <<COLON>> \o Get(entry, "contractAddress")
    \o <<COLON>> \o Get(entry, "tokenId")

\* Object.keys(entry).sort(): the property names of a manifest entry in
\* code-unit order
KeyOrder ==
  << "animationFile", "contractAddress", "error", "imageFile", "metadataFile",
     "name", "storageReportFile", "storageStatus", "tokenId" >>

\* the sorted array holds the names of S in the order KeyOrder lists them
SortKeys(S) == SelectSeq(KeyOrder, LAMBDA k : k \in S)

\* the keys left in the order the entry has them
getEntryFingerprintUnsorted(entry) == DropAbsent(entry)

getEntryFingerprint(entry) ==
  LET keys == SortKeys({entry[i][1] : i \in DOMAIN entry})
      ordered == [i \in DOMAIN keys |-> <<keys[i], Get(entry, keys[i])>>]
  IN DropAbsent(ordered)

\* Map.prototype.set on a map kept as a sequence of <<key, value>> in
\* insertion order
MapSet(map, k, v) ==
  IF \E i \in DOMAIN map : map[i][1] = k
  THEN [i \in DOMAIN map |-> IF map[i][1] = k THEN <<k, v>> ELSE map[i]]
  ELSE Append(map, <<k, v>>)

MapHas(map, k) == \E i \in DOMAIN map : map[i][1] = k

MapGet(map, k) == map[CHOOSE i \in DOMAIN map : map[i][1] = k][2]

RECURSIVE FingerprintMap(_, _, _)
FingerprintMap(manifest, entries, map) ==
  IF entries = <<>> THEN map
  ELSE FingerprintMap(manifest, Tail(entries),
         MapSet(map, getNftId(manifest, Head(entries)),
                getEntryFingerprint(Head(entries))))

\* the fingerprints never compared: an Asset ID present in both is unchanged
RECURSIVE ScanNextIdsOnly(_, _, _, _)
ScanNextIdsOnly(nextMap, previousMap, added, updated) ==
  IF nextMap = <<>> THEN [added |-> added, updated |-> updated]
  ELSE IF ~MapHas(previousMap, Head(nextMap)[1])
  THEN ScanNextIdsOnly(Tail(nextMap), previousMap, Append(added, Head(nextMap)[1]), updated)
  ELSE ScanNextIdsOnly(Tail(nextMap), previousMap, added, updated)

\* for (const [id, fingerprint] of nextMap) ... added.push / updated.push
RECURSIVE ScanNext(_, _, _, _)
ScanNext(nextMap, previousMap, added, updated) ==
  IF nextMap = <<>> THEN [added |-> added, updated |-> updated]
  ELSE LET id == Head(nextMap)[1]
           fingerprint == Head(nextMap)[2]
       IN IF ~MapHas(previousMap, id)
          THEN ScanNext(Tail(nextMap), previousMap, Append(added, id), updated)
          ELSE IF MapGet(previousMap, id) # fingerprint
          THEN ScanNext(Tail(nextMap), previousMap, added, Append(updated, id))
          ELSE ScanNext(Tail(nextMap), previousMap, added, updated)

\* for (const id of previousMap.keys()) ... removed.push
RECURSIVE ScanPrevious(_, _, _)
ScanPrevious(previousMap, nextMap, removed) ==
  IF previousMap = <<>> THEN removed
  ELSE IF ~MapHas(nextMap, Head(previousMap)[1])
  THEN ScanPrevious(Tail(previousMap), nextMap, Append(removed, Head(previousMap)[1]))
  ELSE ScanPrevious(Tail(previousMap), nextMap, removed)

NoManifest == [isNull |-> TRUE]

\* without a previous manifest nothing is reported as added
buildDeltaNoBaseline(previous, next) ==
  LET previousMap == IF previous.isNull THEN <<>>
                     ELSE FingerprintMap(previous.doc, previous.doc.nfts, <<>>)
      nextMap == FingerprintMap(next, next.nfts, <<>>)
      scan == ScanNext(nextMap, previousMap, <<>>, <<>>)
      added == IF previous.isNull THEN <<>> ELSE SortStrings(scan.added)
      updated == SortStrings(scan.updated)
      removed == SortStrings(ScanPrevious(previousMap, nextMap, <<>>))
  IN [ runId |-> next.backupDate,
       walletAddress |-> next.walletAddress,
       chainName |-> next.chainName,
       chainId |-> next.chainId,
       added |-> added,
       updated |-> updated,
       removed |-> removed,
       summary |-> [added |-> Len(added), updated |-> Len(updated),
                    removed |-> Len(removed)] ]

\* previous is NoManifest (null) or [isNull |-> FALSE, doc |-> parsed manifest]
buildDelta(previous, next) ==
  LET previousMap == IF previous.isNull THEN <<>>
                     ELSE FingerprintMap(previous.doc, previous.doc.nfts, <<>>)
      nextMap == FingerprintMap(next, next.nfts, <<>>)
      scan == ScanNext(nextMap, previousMap, <<>>, <<>>)
      added == SortStrings(scan.added)
      updated == SortStrings(scan.updated)
      removed == SortStrings(ScanPrevious(previousMap, nextMap, <<>>))
  IN [ runId |-> next.backupDate,
       walletAddress |-> next.walletAddress,
       chainName |-> next.chainName,
       chainId |-> next.chainId,
       added |-> added,
       updated |-> updated,
       removed |-> removed,
       summary |-> [added |-> Len(added), updated |-> Len(updated),
                    removed |-> Len(removed)] ]

\* the loop of getUniqueRunPath
RECURSIVE UniqueRunFrom(_, _, _)
UniqueRunFrom(runsDir, filenameBase, attempt) ==
  LET candidate == filenameBase \o Suffix(attempt) \o JsonExt
  IN IF candidate \notin DOMAIN runsDir THEN candidate
     ELSE UniqueRunFrom(runsDir, filenameBase, attempt + 1)

\* the name taken without looking for an existing file
getRunPathUnchecked(runsDir, filenameBase) == filenameBase \o JsonExt

getUniqueRunPath(runsDir, filenameBase) == UniqueRunFrom(runsDir, filenameBase, 0)


(***************************************************************************)
(* The output root.  manifests, history and runs map the names of the      *)
(* files of manifests/, manifests/history/ and manifests/runs/ to their    *)
(* content; gallery is the content of gallery-data.js.                     *)
(***************************************************************************)
EmptyDir == <<>>

EmptyRoot ==
  [ dirs |-> {}, manifests |-> EmptyDir, history |-> EmptyDir,
    runs |-> EmptyDir, gallery |-> NoFile ]

\* writeFile(path, data): creates or replaces
WriteFile(dir, name, data) == (name :> data) @@ dir

\* "index.json" is abbreviated to "i.j"
IndexName == <<105>> \o JsonExt

\* join('manifests', file.name), "manifests" abbreviated to "m"
ManifestRelPath(name) == <<109, SLASH>> \o name

\* the text of a JSON object without properties, "{}": every field of the
\* BackupManifest read from it is undefined
EmptyObject ==
  [ walletAddress |-> Absent, ensName |-> Absent, chainName |-> Absent,
    chainId |-> Absent, backupDate |-> Absent, summary |-> Absent, nfts |-> Absent ]

\* the argument of localeCompare is converted to a string: "undefined"
LocaleArg(v) ==
  IF v = Absent THEN <<117, 110, 100, 101, 102, 105, 110, 101, 100>> ELSE v

\* a.chainName.localeCompare(b.chainName), then walletAddress
IndexEntryLess(a, b) ==
  \/ StrLess(a.chainName, LocaleArg(b.chainName))
  \/ /\ a.chainName = LocaleArg(b.chainName)
     /\ StrLess(a.walletAddress, LocaleArg(b.walletAddress))

\* the comparator reads a property of undefined: a.chainName.localeCompare
\* when a has no chainName, a.walletAddress.localeCompare likewise
CompareThrows(a, b) ==
  \/ a.chainName = Absent
  \/ a.chainName = LocaleArg(b.chainName) /\ a.walletAddress = Absent

\* sort passes every element but the first of the array as a, the elements
\* before it as b
SortThrows(arr) ==
  \E i \in 2..Len(arr) : \E j \in 1..(i - 1) : CompareThrows(arr[i], arr[j])

\* Array.prototype.sort(compare) is stable: an entry goes after its equals
RECURSIVE InsertIndexEntry(_, _)
InsertIndexEntry(x, sorted) ==
  IF sorted = <<>> THEN <<x>>
  ELSE IF IndexEntryLess(x, Head(sorted)) THEN <<x>> \o sorted
  ELSE <<Head(sorted)>> \o InsertIndexEntry(x, Tail(sorted))

RECURSIVE SortIndexEntries(_, _)
SortIndexEntries(arr, acc) ==
  IF arr = <<>> THEN acc
  ELSE SortIndexEntries(Tail(arr), InsertIndexEntry(Head(arr), acc))

\* the for loop of collectCanonicalManifests over the listing of manifests/
RECURSIVE CollectFrom(_, _, _)
CollectFrom(manifestDir, files, acc) ==
  IF files = <<>> THEN acc
  ELSE LET name == Head(files)
           parsed == JsonParseManifest(manifestDir[name])
       IN IF ~parsed.ok THEN CollectFrom(manifestDir, Tail(files), acc)
          ELSE LET manifest == parsed.value
                   path == ManifestRelPath(name)
                   entry == [ path |-> path,
                              chainName |-> manifest.chainName,
                              chainId |-> manifest.chainId,
                              walletAddress |-> manifest.walletAddress,
                              walletName |-> manifest.ensName,
                              backupDate |-> manifest.backupDate ]
               IN CollectFrom(manifestDir, Tail(files),
                    [ entries |-> Append(acc.entries, entry),
                      manifestMap |-> (path :> manifest) @@ acc.manifestMap ])

collectCanonicalManifests(manifestDir) ==
  LET manifestFiles == SortNames({n \in DOMAIN manifestDir :
                          StartsWith(n, <<109, DOT>>) /\ EndsWith(n, JsonExt)})
      collected == CollectFrom(manifestDir, manifestFiles,
                               [entries |-> <<>>, manifestMap |-> <<>>])
      threw == SortThrows(collected.entries)
  IN [ threw |-> threw,
       entries |-> IF threw THEN <<>> ELSE SortIndexEntries(collected.entries, <<>>),
       manifestMap |-> collected.manifestMap ]

\* the index written only when there is none yet
writeManifestIndexOnce(root, date) ==
  IF IndexName \in DOMAIN root.manifests THEN root
  ELSE [root EXCEPT !.dirs = @ \cup {"manifests"},
                    !.manifests = WriteFile(root.manifests, IndexName,
                       [ version |-> 1, generatedAt |-> date,
                         manifests |-> collectCanonicalManifests(root.manifests).entries ])]

writeManifestIndex(root, date) ==
  LET dirs == root.dirs \cup {"manifests"}
      index == [ version |-> 1, generatedAt |-> date,
                 manifests |-> collectCanonicalManifests(root.manifests).entries ]
  IN [root EXCEPT !.dirs = dirs,
                  !.manifests = WriteFile(root.manifests, IndexName, index)]

writeGalleryData(root, date) ==
  LET dirs == root.dirs \cup {"manifests"}
      collected == collectCanonicalManifests(root.manifests)
      payload == [ version |-> 1, generatedAt |-> date,
                   index |-> [ version |-> 1, generatedAt |-> date,
                               manifests |-> collected.entries ],
                   manifests |-> collected.manifestMap ]
  IN [root EXCEPT !.dirs = dirs, !.gallery = payload]

\* lines 192-197: copy the canonical file into history/ and prune
SnapshotStep(root, baseName, manifestPath, date) ==
  LET timestamp == formatTimestampForFilename(date)
      historyPath == getUniqueHistoryPath(root.history, baseName, timestamp)
      copied == WriteFile(root.history, historyPath, root.manifests[manifestPath])
  IN [root EXCEPT !.history =
        pruneHistorySnapshots(copied, baseName, MANIFEST_HISTORY_LIMIT)]

\* lines 199-205: write the run record; "run" is abbreviated to "r"
RunRecordStep(root, previousManifest, manifest, safeChain, safeWallet, date) ==
  LET delta == buildDelta(previousManifest, manifest)
      runTimestamp == formatTimestampForFilename(date)
      runBaseName == <<114, DOT>> \o runTimestamp \o <<DOT>> \o safeChain
                       \o <<DOT>> \o safeWallet
      runPath == getUniqueRunPath(root.runs, runBaseName)
  IN [root EXCEPT !.runs = WriteFile(root.runs, runPath, delta)]

\* the entries of the existing canonical manifest that the new one lacks are
\* carried over (a merge instead of a replacement)
CanonicalMergeStep(root, manifestPath, manifest) ==
  LET text == JsonStringifyManifest(manifest)
      old == IF manifestPath \in DOMAIN root.manifests /\ root.manifests[manifestPath].wellFormed
             THEN root.manifests[manifestPath].doc.nfts ELSE <<>>
      kept == SelectSeq(old, LAMBDA e :
                \A i \in DOMAIN manifest.nfts :
                  getNftId(manifest, manifest.nfts[i]) # getNftId(manifest, e))
  IN [root EXCEPT !.manifests =
        WriteFile(@, manifestPath, [text EXCEPT !.doc.nfts = @ \o kept])]

\* line 299: the canonical file is overwritten with the new manifest
CanonicalStep(root, manifestPath, manifest) ==
  [root EXCEPT !.manifests =
     WriteFile(@, manifestPath, JsonStringifyManifest(manifest))]

Failed(e, root) == [ok |-> FALSE, error |-> e, root |-> root]

writeManifestWithHistory(outputDir, chainName, walletAddress, manifest, date) ==
  LET made == [outputDir EXCEPT !.dirs = @ \cup {"manifests", "history", "runs"}]
      baseName == getManifestBaseName(chainName, walletAddress)
  IN IF ~baseName.ok THEN Failed(baseName.error, made)
     ELSE
       LET manifestPath == baseName.value \o JsonExt
           hasExisting == manifestPath \in DOMAIN made.manifests
           parsed == IF hasExisting
                     THEN JsonParseManifest(made.manifests[manifestPath])
                     ELSE Ok(NoManifest)
       IN IF ~parsed.ok THEN Failed(parsed.error, made)
          ELSE
            LET previousManifest ==
                  IF hasExisting THEN [isNull |-> FALSE, doc |-> parsed.value]
                  ELSE NoManifest
                snapped == IF hasExisting
                           THEN SnapshotStep(made, baseName.value, manifestPath, date)
                           ELSE made
            IN IF hasExisting /\ parsed.value.nfts = Absent
               THEN Failed("TypeError", snapped)
               ELSE
                 LET recorded == RunRecordStep(snapped, previousManifest, manifest,
                                   sanitizeManifestSegment(chainName).value,
                                   sanitizeManifestSegment(walletAddress).value, date)
                     written == CanonicalStep(recorded, manifestPath, manifest)
                 IN IF collectCanonicalManifests(written.manifests).threw
                    THEN Failed("TypeError", written)
                    ELSE [ok |-> TRUE, path |-> manifestPath,
                          root |-> writeGalleryData(writeManifestIndex(written, date), date)]


(***************************************************************************)
(* storage-classifier.ts                                                   *)
(*                                                                         *)
(* A URL string is a sequence of tokens; a token is a sequence of strings: *)
(* <<"https://">>, <<"/ipfs/">>, a host <<"host", label, ..., label>>, a   *)
(* content identifier <<"cid", shape>>, a blank <<" ">>, other text.       *)
(***************************************************************************)
Blank == <<" ">>

IsHostTok(tok) == Head(tok) = "host"

\* Qm + 44 base58 characters, bafy + 55 or more base32 characters; "QmShort"
\* and "bafyShort" are Qm/bafy followed by a few alphanumerics only
CidV0 == <<"cid", "QmV0">>
CidV1 == <<"cid", "bafyV1">>
CidQmShort == <<"cid", "QmShort">>
CidBafyShort == <<"cid", "bafyShort">>

\* /^Qm[1-9A-HJ-NP-Za-km-z]{44}$/ and /^bafy[a-z2-7]{55,}$/ on a whole string
isIpfsCid(str) == Len(str) = 1 /\ str[1] \in {CidV0, CidV1}

\* /\/ipfs\/(Qm[a-zA-Z0-9]+|bafy[a-zA-Z0-9]+)/
IpfsPathMatch(str) ==
  {i \in 1..(Len(str) - 1) : str[i] = <<"/ipfs/">> /\ Head(str[i + 1]) = "cid"}

RECURSIVE TrimStartTok(_)
TrimStartTok(s) ==
  IF s # <<>> /\ Head(s) = Blank THEN TrimStartTok(Tail(s)) ELSE s

RECURSIVE TrimEndTok(_)
TrimEndTok(s) ==
  IF s # <<>> /\ s[Len(s)] = Blank THEN TrimEndTok(SubSeq(s, 1, Len(s) - 1)) ELSE s

TrimTok(s) == TrimEndTok(TrimStartTok(s))

LowerLabel(l) ==
  IF l = "IPFS" THEN "ipfs" ELSE IF l = "IO" THEN "io" ELSE l

\* new URL(url): an absolute http(s) URL with a host parses, and so does
\* "mailto:a", whose hostname is empty; text without a scheme, a path without
\* a base and a bare content identifier do not
UrlParses(url) ==
  \/ /\ Len(url) >= 2
     /\ url[1] \in {<<"https://">>, <<"http://">>}
     /\ IsHostTok(url[2])
     /\ \A i \in 3..Len(url) : url[i] # Blank
  \/ url = << <<"mailto:a">> >>

\* urlObj.hostname.toLowerCase(), <<>> for the empty hostname
Hostname(url) ==
  IF url = << <<"mailto:a">> >> THEN <<>>
  ELSE [i \in 1..(Len(url[2]) - 1) |-> LowerLabel(url[2][i + 1])]

NoHost == <<"undefined">>

getHost(url) == IF UrlParses(url) THEN Hostname(url) ELSE NoHost

IPFS_GATEWAY_HOSTS ==
  << <<"ipfs", "io">>, <<"cloudflare-ipfs", "com">>, <<"gateway", "pinata", "cloud">>,
     <<"dweb", "link">>, <<"w3s", "link">>, <<"nftstorage", "link">>,
     <<"ipfs", "infura", "io">>, <<"ipfs", "fleek", "co">>, <<"4everland", "io">>,
     <<"cf-ipfs", "com">> >>

ARWEAVE_GATEWAY_HOSTS ==
  << <<"arweave", "net">>, <<"arweave", "dev">>, <<"ar-io", "net">>,
     <<"g8way", "io">>, <<"arweave", "live">> >>

\* exact matches only, the subdomains of a gateway not recognised
hostMatchesExactly(host, patterns) ==
  \E i \in DOMAIN patterns :
    [j \in DOMAIN host |-> LowerLabel(host[j])]
      = [j \in DOMAIN patterns[i] |-> LowerLabel(patterns[i][j])]

\* lowerHost === lowerPattern || lowerHost.endsWith('.' + lowerPattern),
\* on hosts split into their labels
hostMatchesPatterns(host, patterns) ==
  \E i \in DOMAIN patterns :
    LET pattern == [j \in DOMAIN patterns[i] |-> LowerLabel(patterns[i][j])]
        lowerHost == [j \in DOMAIN host |-> LowerLabel(host[j])]
    IN \/ lowerHost = pattern
       \/ /\ Len(lowerHost) > Len(pattern)
          /\ SubSeq(lowerHost, Len(lowerHost) - Len(pattern) + 1, Len(lowerHost)) = pattern

Analysis(type, isAtRisk, originalUrl, host) ==
  [type |-> type, isAtRisk |-> isAtRisk, originalUrl |-> originalUrl, host |-> host]

\* a JavaScript value passed as url: null, undefined or a string
NullUrl == [kind |-> "null", str |-> <<>>]
UndefinedUrl == [kind |-> "undefined", str |-> <<>>]
Str(s) == [kind |-> "string", str |-> s]

\* the result of a call: returned with a value, or threw
Returned(v) == [threw |-> FALSE, value |-> v]

\* the hostname looked at before the /ipfs/<cid> path
ClassifyStringHostFirst(url) ==
  LET trimmedUrl == TrimTok(url.str) IN
  IF trimmedUrl # <<>> /\ trimmedUrl[1] = <<"data:">>
  THEN Returned(Analysis("data-uri", FALSE, url, NoHost))
  ELSE IF trimmedUrl # <<>> /\ trimmedUrl[1] = <<"ipfs://">>
  THEN Returned(Analysis("ipfs", FALSE, url, NoHost))
  ELSE IF trimmedUrl # <<>> /\ trimmedUrl[1] = <<"ar://">>
  THEN Returned(Analysis("arweave", FALSE, url, NoHost))
  ELSE
    LET host == getHost(trimmedUrl) IN
    IF host # NoHost /\ host # <<>> /\ hostMatchesPatterns(host, IPFS_GATEWAY_HOSTS)
    THEN Returned(Analysis("ipfs", FALSE, url, host))
    ELSE IF host # NoHost /\ host # <<>> /\ hostMatchesPatterns(host, ARWEAVE_GATEWAY_HOSTS)
    THEN Returned(Analysis("arweave", FALSE, url, host))
    ELSE IF IpfsPathMatch(trimmedUrl) # {}
    THEN Returned(Analysis("ipfs", FALSE, url, NoHost))
    ELSE IF isIpfsCid(trimmedUrl)
    THEN Returned(Analysis("ipfs", FALSE, url, NoHost))
    ELSE IF host # NoHost /\ host # <<>>
    THEN Returned(Analysis("centralized", TRUE, url, host))
    ELSE Returned(Analysis("centralized", TRUE, url, NoHost))

\* lines 51-139: the rules applied to a non-empty string
ClassifyString(url) ==
  LET trimmedUrl == TrimTok(url.str) IN
  IF trimmedUrl # <<>> /\ trimmedUrl[1] = <<"data:">>
  THEN Returned(Analysis("data-uri", FALSE, url, NoHost))
  ELSE IF trimmedUrl # <<>> /\ trimmedUrl[1] = <<"ipfs://">>
  THEN Returned(Analysis("ipfs", FALSE, url, NoHost))
  ELSE IF trimmedUrl # <<>> /\ trimmedUrl[1] = <<"ar://">>
  THEN Returned(Analysis("arweave", FALSE, url, NoHost))
  ELSE IF IpfsPathMatch(trimmedUrl) # {}
  THEN Returned(Analysis("ipfs", FALSE, url, NoHost))
  ELSE IF isIpfsCid(trimmedUrl)
  THEN Returned(Analysis("ipfs", FALSE, url, NoHost))
  ELSE
    LET host == getHost(trimmedUrl) IN
    IF host # NoHost /\ host # <<>>
    THEN IF hostMatchesPatterns(host, IPFS_GATEWAY_HOSTS)
         THEN Returned(Analysis("ipfs", FALSE, url, host))
         ELSE IF hostMatchesPatterns(host, ARWEAVE_GATEWAY_HOSTS)
         THEN Returned(Analysis("arweave", FALSE, url, host))
         ELSE Returned(Analysis("centralized", TRUE, url, host))
    ELSE Returned(Analysis("centralized", TRUE, url, NoHost))

ThrewTypeError == [threw |-> TRUE, value |-> Analysis("undefined", FALSE, UndefinedUrl, NoHost)]

\* the guard of lines 43-49 left out: url.trim() on null or undefined throws
classifyUrlNoGuard(url) ==
  IF url.kind # "string" THEN ThrewTypeError ELSE ClassifyString(url)

classifyUrl(url) ==
  IF url.kind # "string" \/ url.str = <<>>
  THEN Returned(Analysis("centralized", TRUE, url, NoHost))
  ELSE ClassifyString(url)

NoAnalysis == Analysis("undefined", FALSE, UndefinedUrl, NoHost)

\* a value is truthy: a non-empty string
Truthy(url) == url.kind = "string" /\ url.str # <<>>

NoMetadata == [present |-> FALSE, image |-> UndefinedUrl, animation_url |-> UndefinedUrl]

Metadata(image, animation) ==
  [present |-> TRUE, image |-> image, animation_url |-> animation]

\* the token URI pushed after the media URLs instead of before them
AtRiskUrlsMediaFirst(nft, metadata, tokenUriAnalysis, imageAnalysis, animationAnalysis) ==
  LET risk1 == IF imageAnalysis # NoAnalysis /\ imageAnalysis.isAtRisk
               THEN <<metadata.image>> ELSE <<>>
      risk2 == IF animationAnalysis # NoAnalysis /\ animationAnalysis.isAtRisk
               THEN Append(risk1, metadata.animation_url) ELSE risk1
  IN IF tokenUriAnalysis.isAtRisk /\ Truthy(nft.tokenUri)
     THEN Append(risk2, nft.tokenUri) ELSE risk2

\* lines 148-172: the URLs pushed to atRiskUrls, in the order of the pushes
AtRiskUrlsOf(nft, metadata, tokenUriAnalysis, imageAnalysis, animationAnalysis) ==
  LET risk1 == IF tokenUriAnalysis.isAtRisk /\ Truthy(nft.tokenUri)
               THEN <<nft.tokenUri>> ELSE <<>>
      risk2 == IF imageAnalysis # NoAnalysis /\ imageAnalysis.isAtRisk
               THEN Append(risk1, metadata.image) ELSE risk1
  IN IF animationAnalysis # NoAnalysis /\ animationAnalysis.isAtRisk
     THEN Append(risk2, metadata.animation_url) ELSE risk2

\* the animation analysis left out of the verdict
EveryImageAnalysisSafe(tokenUriAnalysis, imageAnalysis, animationAnalysis) ==
  LET analyses == SelectSeq(<<tokenUriAnalysis, imageAnalysis>>,
                            LAMBDA a : a # NoAnalysis)
  IN \A i \in DOMAIN analyses : ~analyses[i].isAtRisk

\* lines 175-178
EveryAnalysisSafe(tokenUriAnalysis, imageAnalysis, animationAnalysis) ==
  LET analyses == SelectSeq(<<tokenUriAnalysis, imageAnalysis, animationAnalysis>>,
                            LAMBDA a : a # NoAnalysis)
  IN \A i \in DOMAIN analyses : ~analyses[i].isAtRisk

analyzeNFTStorage(nft, metadata) ==
  LET tokenUriAnalysis ==
        classifyUrl(IF Truthy(nft.tokenUri) THEN nft.tokenUri ELSE Str(<<>>)).value
      hasImage == metadata.present /\ Truthy(metadata.image)
      imageAnalysis == IF hasImage THEN classifyUrl(metadata.image).value ELSE NoAnalysis
      hasAnimation == metadata.present /\ Truthy(metadata.animation_url)
      animationAnalysis == IF hasAnimation THEN classifyUrl(metadata.animation_url).value
                           ELSE NoAnalysis
  IN [ tokenUri |-> tokenUriAnalysis,
       image |-> imageAnalysis,
       animation |-> animationAnalysis,
       isFullyDecentralized |->
         EveryAnalysisSafe(tokenUriAnalysis, imageAnalysis, animationAnalysis),
       atRiskUrls |->
         AtRiskUrlsOf(nft, metadata, tokenUriAnalysis, imageAnalysis, animationAnalysis) ]

\* mixed never told apart from at-risk
getStorageStatusNoMixed(report) ==
  IF report.isFullyDecentralized THEN "decentralized" ELSE "at-risk"

getStorageStatus(report) ==
  IF report.isFullyDecentralized THEN "decentralized"
  ELSE LET analyses == SelectSeq(<<report.tokenUri, report.image, report.animation>>,
                                 LAMBDA a : a # NoAnalysis)
           hasDecentralized == \E i \in DOMAIN analyses : ~analyses[i].isAtRisk
           hasAtRisk == \E i \in DOMAIN analyses : analyses[i].isAtRisk
       IN IF hasDecentralized /\ hasAtRisk THEN "mixed" ELSE "at-risk"

(***************************************************************************)
(* downloader.ts                                                           *)
(***************************************************************************)
MaxRetries == 3
BaseDelay == 1000
MaxDelay == 10000

REQUEST_TIMEOUT == 30000

RETRY_CONFIG == [maxRetries |-> MaxRetries, baseDelay |-> BaseDelay, maxDelay |-> MaxDelay]

Https(host, rest) == << <<"https://">>, host >> \o rest

IPFS_GATEWAY_URLS ==
  << Https(<<"host", "ipfs", "io">>, << <<"/ipfs/">> >>),
     Https(<<"host", "cloudflare-ipfs", "com">>, << <<"/ipfs/">> >>),
     Https(<<"host", "gateway", "pinata", "cloud">>, << <<"/ipfs/">> >>),
     Https(<<"host", "dweb", "link">>, << <<"/ipfs/">> >>),
     Https(<<"host", "w3s", "link">>, << <<"/ipfs/">> >>),
     Https(<<"host", "nftstorage", "link">>, << <<"/ipfs/">> >>) >>

Min(a, b) == IF a < b THEN a ELSE b

\* lines 65-72: the candidate list
UrlsToTry(url) ==
  LET ipfsMatch == IpfsPathMatch(url) IN
  IF ipfsMatch # {}
  THEN LET first == CHOOSE i \in ipfsMatch : \A j \in ipfsMatch : i <= j
           hash == url[first + 1]
       IN [g \in DOMAIN IPFS_GATEWAY_URLS |-> IPFS_GATEWAY_URLS[g] \o <<hash>>]
  ELSE <<url>>

\* what one fetch attempt can meet
\*   "ok"          2xx, a body, streamed to disk completely
\*   "emptyBody"   2xx, response.body is null
\*   "streamError" 2xx, a body, pipeline() rejects
\*   "http500"     a non-2xx status
\*   "network"     fetch() rejects
\*   "timeout"     the AbortController fires after REQUEST_TIMEOUT
Outcomes == {"ok", "emptyBody", "streamError", "http500", "network", "timeout"}

Answered2xx(outcome) == outcome \in {"ok", "emptyBody", "streamError"}

\* the error caught at line 118 for a failed attempt
ErrorOf(outcome) ==
  CASE outcome = "emptyBody" -> "Response body is empty"
    [] outcome = "streamError" -> "stream error"
    [] outcome = "http500" -> "HTTP 500"
    [] outcome = "network" -> "fetch failed"
    [] outcome = "timeout" -> "AbortError"

NoError == "null"

\* the first error kept instead of the last
KeepFirstError(lastError, error) == IF lastError = NoError THEN error ELSE lastError

\* line 119
RecordError(lastError, error) == error

\* 2^attempt
RECURSIVE Pow2(_)
Pow2(n) == IF n = 0 THEN 1 ELSE 2 * Pow2(n - 1)

\* the exponent counted from 1
BackoffDelayNextPower(attempt) ==
  Min(RETRY_CONFIG.baseDelay * Pow2(attempt + 1), RETRY_CONFIG.maxDelay)

\* lines 122-126
BackoffDelay(attempt) ==
  Min(RETRY_CONFIG.baseDelay * Pow2(attempt), RETRY_CONFIG.maxDelay)

\* no fallback to the next candidate once a candidate is exhausted
AfterFailureNoFallback(d) ==
  IF d.attempt < RETRY_CONFIG.maxRetries - 1
  THEN [d EXCEPT !.pc = "backoff", !.delay = BackoffDelay(d.attempt)]
  ELSE [d EXCEPT !.pc = "thrown", !.thrown = d.lastError]

\* one attempt more on every candidate
AfterFailureOneMore(d) ==
  IF d.attempt < RETRY_CONFIG.maxRetries
  THEN [d EXCEPT !.pc = "backoff", !.delay = BackoffDelay(d.attempt)]
  ELSE IF d.tryIdx < Len(d.urlsToTry)
  THEN [d EXCEPT !.pc = "fetch", !.tryIdx = @ + 1, !.attempt = 0]
  ELSE [d EXCEPT !.pc = "thrown", !.thrown = d.lastError]

\* where the loops of lines 74-131 go after a failed attempt
AfterFailure(d) ==
  IF d.attempt < RETRY_CONFIG.maxRetries - 1
  THEN [d EXCEPT !.pc = "backoff", !.delay = BackoffDelay(d.attempt)]
  ELSE IF d.tryIdx < Len(d.urlsToTry)
  THEN [d EXCEPT !.pc = "fetch", !.tryIdx = @ + 1, !.attempt = 0]
  ELSE [d EXCEPT !.pc = "thrown", !.thrown = d.lastError]

\* one pass through the body of the inner loop, lines 76-129
AttemptStep(d, outcome) ==
  LET counted == [d EXCEPT !.attempts[d.tryIdx] = @ + 1,
                           !.answered2xx = @ + (IF Answered2xx(outcome) THEN 1 ELSE 0),
                           !.completed = @ + (IF outcome = "ok" THEN 1 ELSE 0),
                           !.lastAttempt = [tryIdx |-> d.tryIdx, attempt |-> d.attempt,
                                            outcome |-> outcome]]
  IN IF outcome = "ok"
     THEN [counted EXCEPT !.pc = "returned",
                          !.result = [url |-> d.urlsToTry[d.tryIdx]]]
     ELSE AfterFailure([counted EXCEPT
                          !.lastError = RecordError(d.lastError, ErrorOf(outcome))])

NoAttempt == [tryIdx |-> 0, attempt |-> 0, outcome |-> "none"]
NoResult == [url |-> <<>>]

DlIdle == [ pc |-> "idle", url |-> <<>>, urlsToTry |-> <<>>, tryIdx |-> 0, attempt |-> 0,
            delay |-> 0, lastError |-> NoError, thrown |-> NoError,
            attempts |-> <<>>, answered2xx |-> 0, completed |-> 0, lastAttempt |-> NoAttempt,
            result |-> NoResult, elapsed |-> 0, finalExt |-> <<>>, disk |-> <<>> ]

(***************************************************************************)
(* getExtensionFromUrl                                                     *)
(*                                                                         *)
(* A content type is undefined or a sequence of tokens: a media type       *)
(* ("image/png", "IMAGE/PNG"), ";", " ", a parameter.  A URL is given by   *)
(* its parts; path, query and fragment are sequences of character codes.   *)
(***************************************************************************)
QMARK == 63

UndefinedType == <<"undefined">>

\* ".png", ".jpg", ..., ".bin"
PngExt == <<DOT, 112, 110, 103>>
JpgExt == <<DOT, 106, 112, 103>>
BinExt == <<DOT, 98, 105, 110>>

\* lines 14-28, in the order of the source
typeMap ==
  << <<"image/png", PngExt>>,
     <<"image/jpeg", JpgExt>>,
     <<"image/jpg", JpgExt>>,
     <<"image/gif", <<DOT, 103, 105, 102>>>>,
     <<"image/webp", <<DOT, 119, 101, 98, 112>>>>,
     <<"image/svg+xml", <<DOT, 115, 118, 103>>>>,
     <<"video/mp4", <<DOT, 109, 112, 52>>>>,
     <<"video/webm", <<DOT, 119, 101, 98, 109>>>>,
     <<"video/quicktime", <<DOT, 109, 111, 118>>>>,
     <<"audio/mpeg", <<DOT, 109, 112, 51>>>>,
     <<"audio/wav", <<DOT, 119, 97, 118>>>>,
     <<"text/html", <<DOT, 104, 116, 109, 108>>>>,
     <<"application/pdf", <<DOT, 112, 100, 102>>>> >>

\* typeMap is an object literal: the lookup of "constructor" finds the
\* property inherited from Object.prototype, a function and no string
InheritedConstructor == <<1>>

\* String.prototype.toLowerCase on a token
LowerType(tok) ==
  CASE tok = "IMAGE/PNG" -> "image/png"
    [] tok = "Image/Jpeg" -> "image/jpeg"
    [] tok = "CONSTRUCTOR" -> "constructor"
    [] OTHER -> tok

\* contentType.split(';')[0]
BeforeSemicolon(toks) ==
  LET semis == {i \in DOMAIN toks : toks[i] = ";"}
  IN IF semis = {} THEN toks
     ELSE SubSeq(toks, 1, (CHOOSE i \in semis : \A j \in semis : i <= j) - 1)

RECURSIVE TrimTypeStart(_)
TrimTypeStart(toks) ==
  IF toks # <<>> /\ Head(toks) = " " THEN TrimTypeStart(Tail(toks)) ELSE toks

RECURSIVE TrimTypeEnd(_)
TrimTypeEnd(toks) ==
  IF toks # <<>> /\ toks[Len(toks)] = " "
  THEN TrimTypeEnd(SubSeq(toks, 1, Len(toks) - 1)) ELSE toks

\* line 30: typeMap[contentType.split(';')[0].trim().toLowerCase()], Absent
\* for undefined
TypeLookup(contentType) ==
  LET key == TrimTypeEnd(TrimTypeStart(BeforeSemicolon(contentType)))
      name == IF Len(key) = 1 THEN LowerType(key[1]) ELSE "none"
  IN IF \E i \in DOMAIN typeMap : typeMap[i][1] = name
     THEN typeMap[CHOOSE i \in DOMAIN typeMap : typeMap[i][1] = name][2]
     ELSE IF name = "constructor" THEN InheritedConstructor
     ELSE Absent

\* the text of the URL: "https://x/" for an absolute one, then the path, "?"
\* and the query, "#" and the fragment
UrlText(url) ==
  (IF url.absolute THEN <<104, 116, 116, 112, 115, COLON, SLASH, SLASH, 120, SLASH>>
   ELSE <<>>)
    \o url.path
    \o (IF url.query = Absent THEN <<>> ELSE <<QMARK>> \o url.query)
    \o (IF url.fragment = Absent THEN <<>> ELSE <<35>> \o url.fragment)

\* new URL(url).pathname of an absolute URL; new URL throws on a relative one
Pathname(url) == <<SLASH>> \o url.path

Alnum(c) == c \in (48..57) \cup (65..90) \cup (97..122)

\* the end of the longest run of [a-zA-Z0-9] that starts at i
RECURSIVE RunEnd(_, _)
RunEnd(str, i) ==
  IF i <= Len(str) /\ Alnum(str[i]) THEN RunEnd(str, i + 1) ELSE i - 1

\* str.match(/\.([a-zA-Z0-9]+)(\?|$)/): the first group of the leftmost
\* match, Absent for null
MatchExtension(str) ==
  LET starts == {i \in DOMAIN str :
                   /\ str[i] = DOT
                   /\ RunEnd(str, i + 1) > i
                   /\ \/ RunEnd(str, i + 1) = Len(str)
                      \/ str[RunEnd(str, i + 1) + 1] = QMARK}
  IN IF starts = {} THEN Absent
     ELSE LET i == CHOOSE k \in starts : \A j \in starts : k <= j
          IN SubSeq(str, i + 1, RunEnd(str, i + 1))

ToLowerCase(str) ==
  [i \in DOMAIN str |-> IF str[i] \in 65..90 THEN str[i] + 32 ELSE str[i]]

getExtensionFromUrl(url, contentType) ==
  LET mapped == IF contentType = UndefinedType \/ contentType = <<>> THEN Absent
                ELSE TypeLookup(contentType)
      match == IF url.absolute THEN MatchExtension(Pathname(url))
               ELSE MatchExtension(UrlText(url))
  IN IF mapped # Absent THEN mapped
     ELSE IF match # Absent THEN <<DOT>> \o ToLowerCase(match)
     ELSE BinExt

(***************************************************************************)
(* Callers of the manifest store                                           *)
(***************************************************************************)
\* chain "z" (zora); wallets "a" and "a.x"
ChainNames == { <<122>> }
Wallets == { <<97>>, <<97, DOT, 120>> }

ZoraChainId == 7777777

Entry(contract, token, name) ==
  << <<"contractAddress", contract>>, <<"tokenId", token>>, <<"name", name>>,
     <<"error", Absent>> >>

EntryA == Entry(<<49>>, <<49>>, <<65>>)
EntryB == Entry(<<50>>, <<50>>, <<66>>)
EntryBUpdated == Entry(<<50>>, <<50>>, <<66, 85>>)
EntryC == Entry(<<51>>, <<51>>, <<71>>)

NftLists == { <<EntryA, EntryB>>, <<EntryC, EntryBUpdated>> }

\* the calls made: the first wallet backs up either collection, the second
\* one always the same collection
Calls ==
  { c \in ChainNames \X Wallets \X NftLists :
      c[2] = <<97>> \/ c[3] = <<EntryA, EntryB>> }

\* the caller stamps every manifest with a fresh backupDate
MakeManifest(chainName, walletAddress, nfts, stamp) ==
  [ walletAddress |-> walletAddress,
    ensName |-> Absent,
    chainName |-> chainName,
    chainId |-> ZoraChainId,
    backupDate |-> Decimal(stamp),
    summary |-> [ totalNFTs |-> Len(nfts), fullyDecentralized |-> 0,
                  atRisk |-> Len(nfts), backedUp |-> Len(nfts), failed |-> 0 ],
    nfts |-> nfts ]

(***************************************************************************)
(* metadata.ts                                                             *)
(***************************************************************************)
ipfsToHttp(uri) ==
  IF ~Truthy(uri) THEN uri
  ELSE IF uri.str[1] = <<"ipfs://">>
  THEN Str(IPFS_GATEWAY_URLS[1] \o Tail(uri.str))
  ELSE IF uri.str[1] \in {CidV0, CidV1, CidBafyShort}
  THEN Str(IPFS_GATEWAY_URLS[1] \o uri.str)
  ELSE uri

extractMediaUrls(metadata) ==
  [ image |-> IF Truthy(metadata.image) THEN ipfsToHttp(metadata.image)
              ELSE UndefinedUrl,
    animation |-> IF Truthy(metadata.animation_url) THEN ipfsToHttp(metadata.animation_url)
                  ELSE UndefinedUrl ]

(***************************************************************************)
(* cli.ts                                                                  *)
(***************************************************************************)
\* only the slash is refused
sanitizePathSegmentSlashOnly(segment) ==
  IF Includes(segment, <<SLASH>>)
  THEN Throw("Invalid path segment")
  ELSE Ok(segment)

\* lines 67-72
sanitizePathSegment(segment) ==
  IF \/ Includes(segment, <<SLASH>>)
     \/ Includes(segment, <<BSLASH>>)
     \/ Includes(segment, <<DOT, DOT>>)
  THEN Throw("Invalid path segment")
  ELSE Ok(segment)

\* lines 320-324 and 340-344: the URL of the metadata, then the cached one
UrlsToDownload(mediaUrl, cachedUrl) ==
  LET first == IF Truthy(mediaUrl) THEN <<mediaUrl>> ELSE <<>>
  IN IF Truthy(cachedUrl) /\ cachedUrl \notin Range(first)
     THEN Append(first, cachedUrl) ELSE first

\* lines 328-336 and 348-356: downloadAsset on each URL in turn until one
\* returns; throws[i] tells whether the call on the i-th URL throws
RECURSIVE DownloadLoop(_, _, _)
DownloadLoop(urls, throws, i) ==
  IF i > Len(urls) THEN [file |-> Absent, calls |-> Len(urls)]
  ELSE IF ~throws[i] THEN [file |-> <<102, 48 + i>>, calls |-> i]
  ELSE DownloadLoop(urls, throws, i + 1)

NoDownload == [file |-> Absent, calls |-> 0]

\* whatever the classification, a medium with a URL is downloaded
ShouldDownloadAny(urlsToTry, analysis, options) ==
  Len(urlsToTry) > 0

\* lines 326 and 346: `urlsToTry.length > 0 && (analysis?.isAtRisk || options.all)`
ShouldDownload(urlsToTry, analysis, options) ==
  /\ Len(urlsToTry) > 0
  /\ (analysis.isAtRisk \/ options.all)

NoReport == [present |-> FALSE]

\* file names of the asset directory, abbreviated: "m" metadata.json,
\* "s" storage-report.json
MetadataFile == <<109>>
StorageReportFile == <<115>>
NoMetadataError == <<78>>

\* env: what the network does during this call
\*   fetchOk       fetchMetadata(nft.tokenUri) returns nft.liveMetadata
\*   imageThrows   per image URL, whether downloadAsset throws
\*   animThrows    per animation URL, whether downloadAsset throws
backupNFT(nft, options, env) ==
  LET safeContract == sanitizePathSegment(nft.contractAddress)
      safeTokenId == sanitizePathSegment(nft.tokenId)
  IN IF ~safeContract.ok THEN [threw |-> TRUE, error |-> safeContract.error]
     ELSE IF ~safeTokenId.ok THEN [threw |-> TRUE, error |-> safeTokenId.error]
     ELSE
       LET fetched == IF Truthy(nft.tokenUri) /\ env.fetchOk THEN nft.liveMetadata
                      ELSE NoMetadata
           metadata == IF ~fetched.present /\ nft.cachedMetadata.present
                       THEN nft.cachedMetadata ELSE fetched
       IN IF ~metadata.present
          THEN Returned([ metadataFile |-> Absent, imageFile |-> Absent,
                          animationFile |-> Absent, storageReportFile |-> Absent,
                          storageReport |-> NoReport, error |-> NoMetadataError,
                          image |-> NoDownload, animation |-> NoDownload ])
          ELSE
            LET storageReport == analyzeNFTStorage(nft, metadata)
                mediaUrls == extractMediaUrls(metadata)
                imageUrlsToTry == UrlsToDownload(mediaUrls.image, nft.cachedImageUrl)
                image == IF ShouldDownload(imageUrlsToTry, storageReport.image, options)
                         THEN DownloadLoop(imageUrlsToTry, env.imageThrows, 1)
                         ELSE NoDownload
                animationUrlsToTry ==
                  UrlsToDownload(mediaUrls.animation, nft.cachedAnimationUrl)
                animation == IF ShouldDownload(animationUrlsToTry,
                                               storageReport.animation, options)
                             THEN DownloadLoop(animationUrlsToTry, env.animThrows, 1)
                             ELSE NoDownload
            IN Returned([ metadataFile |-> MetadataFile, imageFile |-> image.file,
                          animationFile |-> animation.file,
                          storageReportFile |-> StorageReportFile,
                          storageReport |-> [present |-> TRUE, report |-> storageReport],
                          error |-> Absent,
                          image |-> image, animation |-> animation ])

StatusCode(status) ==
  CASE status = "decentralized" -> <<100>>
    [] status = "at-risk" -> <<97>>
    [] status = "mixed" -> <<109>>

\* lines 518-528
ManifestEntry(nft, report, result) ==
  << <<"contractAddress", nft.contractAddress>>,
     <<"tokenId", nft.tokenId>>,
     <<"name", nft.name>>,
     <<"metadataFile", result.metadataFile>>,
     <<"imageFile", result.imageFile>>,
     <<"animationFile", result.animationFile>>,
     <<"storageReportFile", result.storageReportFile>>,
     <<"storageStatus", StatusCode(getStorageStatus(
          IF result.storageReport.present THEN result.storageReport.report ELSE report))>>,
     <<"error", result.error>> >>

NoCall == [made |-> FALSE]

BkIdle == [pc |-> "idle"]
ClsIdle == [pc |-> "idle"]
AnIdle == [pc |-> "idle"]
ExtIdle == [pc |-> "idle"]
WrIdle == <<>>
FwIdle == [pc |-> "idle"]

StoreEmpty ==
  /\ fs = EmptyRoot
  /\ now = 0
  /\ writes = 0
  /\ last = NoCall

InitStore ==
  /\ StoreEmpty
  /\ dl = DlIdle
  /\ bk = BkIdle
  /\ cls = ClsIdle
  /\ an = AnIdle
  /\ ext = ExtIdle
  /\ wr = WrIdle
  /\ fw = FwIdle

\* one completed call writeManifestWithHistory(root, chainName, walletAddress, manifest)
WriteCall(call) ==
  LET chainName == call[1]
      walletAddress == call[2]
      nfts == call[3]
      manifest == MakeManifest(chainName, walletAddress, nfts, writes + 1)
      sameKey == /\ last.made
                 /\ last.chainName = chainName
                 /\ last.walletAddress = walletAddress
  IN \E res \in {writeManifestWithHistory(fs, chainName, walletAddress, manifest, now)} :
       /\ res.ok
       /\ fs' = res.root
       /\ writes' = writes + 1
       /\ last' = [ made |-> TRUE, chainName |-> chainName,
                    walletAddress |-> walletAddress, manifest |-> manifest,
                    path |-> res.path, before |-> fs,
                    streak |-> IF sameKey THEN last.streak + 1 ELSE 1 ]

Write ==
  /\ writes < MaxWrites
  /\ \E call \in Calls : WriteCall(call)
  /\ UNCHANGED <<now, dl, bk, cls, an, ext, wr, fw>>

\* the clock advances between two calls; time is counted from the first call
Tick ==
  /\ now < MaxTime
  /\ 0 < writes /\ writes < MaxWrites
  /\ now' = now + 1
  /\ UNCHANGED <<fs, writes, last, dl, bk, cls, an, ext, wr, fw>>

NextStore == Write \/ Tick

SpecStore == InitStore /\ [][NextStore]_vars

(***************************************************************************)
(* Calls of the manifest store that may fail, and files damaged on disk    *)
(***************************************************************************)
\* the entries A and B with their keys in another order
EntryAReordered ==
  << <<"name", <<65>>>>, <<"error", Absent>>, <<"tokenId", <<49>>>>,
     <<"contractAddress", <<49>>>> >>
EntryBReordered ==
  << <<"tokenId", <<50>>>>, <<"name", <<66>>>>, <<"contractAddress", <<50>>>> >>

\* "", " ", "a/b", "a\b", "..", ".. " and "a..b"
InvalidSegments ==
  { <<>>, <<SP>>, <<97, SLASH, 98>>, <<97, BSLASH, 98>>, <<DOT, DOT>>,
    <<97, DOT, DOT, 98>> }

FaultyCalls ==
  { <<<<122>>, <<97>>, nfts>> :
      nfts \in NftLists \cup { <<EntryBReordered, EntryAReordered>> } }
    \cup { <<<<122>>, <<98>>, <<EntryC, EntryBUpdated>>>> }
    \cup { <<<<122>>, w, <<EntryA, EntryB>>>> : w \in InvalidSegments }
    \cup { <<c, <<97>>, <<EntryA, EntryB>>>> : c \in InvalidSegments }

\* one call writeManifestWithHistory(root, chainName, walletAddress, manifest),
\* completed or failed
Call ==
  /\ writes < MaxCalls
  /\ \E call \in FaultyCalls :
       LET chainName == call[1]
           walletAddress == call[2]
           manifest == MakeManifest(chainName, walletAddress, call[3], writes + 1)
           res == writeManifestWithHistory(fs, chainName, walletAddress, manifest, now)
       IN /\ fs' = res.root
          /\ writes' = writes + 1
          /\ last' = [ made |-> TRUE, ok |-> res.ok,
                       error |-> IF res.ok THEN "none" ELSE res.error,
                       chainName |-> chainName, walletAddress |-> walletAddress,
                       manifest |-> manifest,
                       path |-> IF res.ok THEN res.path ELSE <<>>,
                       before |-> fs ]
  /\ UNCHANGED <<now, dl, bk, cls, an, ext, wr, fw>>

\* a canonical manifest file is damaged on disk: cut short, so that what
\* readFile returns is no longer JSON, or overwritten with "{}"; the store is
\* no longer as the last call left it
Damage ==
  /\ \E name \in DOMAIN fs.manifests \ {IndexName} :
       /\ fs.manifests[name].wellFormed
       /\ fs.manifests[name].doc # EmptyObject
       /\ \/ fs' = [fs EXCEPT !.manifests[name].wellFormed = FALSE]
          \/ fs' = [fs EXCEPT !.manifests[name].doc = EmptyObject]
  /\ last' = NoCall
  /\ UNCHANGED <<now, writes, dl, bk, cls, an, ext, wr, fw>>

NextStoreFaults == Call \/ Damage

SpecStoreFaults == InitStore /\ [][NextStoreFaults]_vars

(***************************************************************************)
(* Calls for two wallets of which one is a dotted prefix of the other, the *)
(* longer one continuing with a character that sorts before the timestamp  *)
(***************************************************************************)
\* "a" and "a.0"
DottedWallets == { <<97>>, <<97, DOT, 48>> }

DottedCalls == { <<<<122>>, w, <<EntryA, EntryB>>>> : w \in DottedWallets }

WriteDotted ==
  /\ writes < MaxWrites
  /\ \E call \in DottedCalls : WriteCall(call)
  /\ UNCHANGED <<now, dl, bk, cls, an, ext, wr, fw>>

NextStoreDotted == WriteDotted \/ Tick

SpecStoreDotted == InitStore /\ [][NextStoreDotted]_vars

(***************************************************************************)
(* Calls for (chain, wallet) pairs that differ in a character the          *)
(* sanitizer replaces, or in the place of a dot                            *)
(***************************************************************************)
\* ("z", "a b"), ("z", "a_b"), ("x.y", "z") and ("x", "y.z")
AlikeKeys ==
  { << <<122>>, <<97, SP, 98>> >>, << <<122>>, <<97, USCORE, 98>> >>,
    << <<120, DOT, 121>>, <<122>> >>, << <<120>>, <<121, DOT, 122>> >> }

AlikeCalls == { <<k[1], k[2], <<EntryA, EntryB>>>> : k \in AlikeKeys }

WriteAlike ==
  /\ writes < MaxCalls
  /\ \E call \in AlikeCalls : WriteCall(call)
  /\ UNCHANGED <<now, dl, bk, cls, an, ext, wr, fw>>

NextStoreAlike == WriteAlike \/ Tick

SpecStoreAlike == InitStore /\ [][NextStoreAlike]_vars

(***************************************************************************)
(* writeManifestWithHistory step by step.  A call in progress is a record  *)
(* of its arguments, its locals and pc, the await it has reached; a step   *)
(* is what the call does to the output root at that await.                 *)
(***************************************************************************)
NoScan == [threw |-> FALSE, entries |-> <<>>, manifestMap |-> <<>>]

\* what writeFile or copyFile leaves of the file when the process dies in it
TornFile == [wellFormed |-> FALSE]

NewCall(root, chainName, walletAddress, manifest, nth, crashes) ==
  [ pc |-> "mkdir", nth |-> nth, chainName |-> chainName, walletAddress |-> walletAddress,
    manifest |-> manifest, hasExisting |-> FALSE, previous |-> NoManifest,
    scan |-> NoScan, error |-> "none", before |-> root, crashes |-> crashes ]

Ended == {"done", "failed", "crashed"}

\* the canonical file is overwritten before the run record is written
NextPcCanonicalFirst(pc, hasExisting) ==
  CASE pc = "mkdir" -> "read"
    [] pc = "read" -> IF hasExisting THEN "snapshot" ELSE "canonical"
    [] pc = "snapshot" -> "prune"
    [] pc = "prune" -> "canonical"
    [] pc = "canonical" -> "run"
    [] pc = "run" -> "indexScan"
    [] pc = "indexScan" -> "indexWrite"
    [] pc = "indexWrite" -> "bundleScan"
    [] pc = "bundleScan" -> "bundleWrite"
    [] pc = "bundleWrite" -> "done"

\* the order of the awaits of lines 270-302
NextPc(pc, hasExisting) ==
  CASE pc = "mkdir" -> "read"
    [] pc = "read" -> IF hasExisting THEN "snapshot" ELSE "run"
    [] pc = "snapshot" -> "prune"
    [] pc = "prune" -> "run"
    [] pc = "run" -> "canonical"
    [] pc = "canonical" -> "indexScan"
    [] pc = "indexScan" -> "indexWrite"
    [] pc = "indexWrite" -> "bundleScan"
    [] pc = "bundleScan" -> "bundleWrite"
    [] pc = "bundleWrite" -> "done"

Advance(root, c) == [root |-> root, call |-> [c EXCEPT !.pc = NextPc(c.pc, c.hasExisting)]]

Reject(root, c, e) == [root |-> root, call |-> [c EXCEPT !.pc = "failed", !.error = e]]

\* one step of the call c on the output root
StepCall(root, c, date) ==
  LET baseName == getManifestBaseName(c.chainName, c.walletAddress)
      manifestPath == baseName.value \o JsonExt
  IN CASE c.pc = "mkdir" ->
            \* lines 270-274
            LET made == [root EXCEPT !.dirs = @ \cup {"manifests", "history", "runs"}]
            IN IF ~baseName.ok THEN Reject(made, c, baseName.error)
               ELSE Advance(made, c)
       [] c.pc = "read" ->
            \* lines 277-282
            LET hasExisting == manifestPath \in DOMAIN root.manifests
                parsed == IF hasExisting
                          THEN JsonParseManifest(root.manifests[manifestPath])
                          ELSE Ok(NoManifest)
            IN IF ~parsed.ok THEN Reject(root, c, parsed.error)
               ELSE Advance(root,
                      [c EXCEPT !.hasExisting = hasExisting,
                                !.previous = IF hasExisting
                                             THEN [isNull |-> FALSE, doc |-> parsed.value]
                                             ELSE NoManifest])
       [] c.pc = "snapshot" ->
            \* lines 285-287
            LET historyPath == getUniqueHistoryPath(root.history, baseName.value,
                                 formatTimestampForFilename(date))
            IN Advance([root EXCEPT !.history =
                          WriteFile(@, historyPath, root.manifests[manifestPath])], c)
       [] c.pc = "prune" ->
            \* line 288
            Advance([root EXCEPT !.history =
                       pruneHistorySnapshots(@, baseName.value, MANIFEST_HISTORY_LIMIT)], c)
       [] c.pc = "run" ->
            \* lines 291-297
            IF c.hasExisting /\ c.previous.doc.nfts = Absent
            THEN Reject(root, c, "TypeError")
            ELSE Advance(RunRecordStep(root, c.previous, c.manifest,
                           sanitizeManifestSegment(c.chainName).value,
                           sanitizeManifestSegment(c.walletAddress).value, date), c)
       [] c.pc = "canonical" ->
            \* line 299
            Advance(CanonicalStep(root, manifestPath, c.manifest), c)
       [] c.pc \in {"indexScan", "bundleScan"} ->
            \* lines 221-224 and 238-241
            LET made == [root EXCEPT !.dirs = @ \cup {"manifests"}]
                scan == collectCanonicalManifests(root.manifests)
            IN IF scan.threw THEN Reject(made, c, "TypeError")
               ELSE Advance(made, [c EXCEPT !.scan = scan])
       [] c.pc = "indexWrite" ->
            \* lines 226-233
            Advance([root EXCEPT !.manifests =
                       WriteFile(@, IndexName,
                         [ version |-> 1, generatedAt |-> date,
                           manifests |-> c.scan.entries ])], c)
       [] c.pc = "bundleWrite" ->
            \* lines 242-256
            Advance([root EXCEPT !.gallery =
                       [ version |-> 1, generatedAt |-> date,
                         index |-> [ version |-> 1, generatedAt |-> date,
                                     manifests |-> c.scan.entries ],
                         manifests |-> c.scan.manifestMap ]], c)

\* the steps that change the output root; the process dying at another step
\* leaves what dying at the next of these leaves
ChangingPcs == {"mkdir", "snapshot", "prune", "run", "canonical", "indexWrite", "bundleWrite"}

\* the steps that write a file
WritingPcs == {"snapshot", "run", "canonical", "indexWrite", "bundleWrite"}

TearDir(old, new) ==
  [n \in DOMAIN new |->
     IF n \in DOMAIN old /\ old[n] = new[n] THEN new[n] ELSE TornFile]

\* the root after the process died in the middle of the write that leads
\* from root to after: the file written is there, incomplete
Tear(root, after) ==
  [ dirs |-> after.dirs,
    manifests |-> TearDir(root.manifests, after.manifests),
    history |-> TearDir(root.history, after.history),
    runs |-> TearDir(root.runs, after.runs),
    gallery |-> IF after.gallery = root.gallery THEN root.gallery ELSE TornFile ]

AllEnded == \A i \in DOMAIN wr : wr[i].pc \in Ended

CrashesSoFar == IF wr = <<>> THEN <<>> ELSE wr[1].crashes

\* the number of calls followed step by step so far
SteppedSoFar == IF wr = <<>> THEN 0 ELSE wr[1].nth

\* the calls followed step by step: each wallet backs up the same collection
SteppedCalls == { c \in Calls : c[3] = <<EntryA, EntryB>> }

\* a call starts when no other call is in progress
Begin ==
  /\ writes < MaxSteppedWrites
  /\ SteppedSoFar < MaxStepped
  /\ AllEnded
  /\ \E call \in SteppedCalls :
       wr' = << NewCall(fs, call[1], call[2],
                        MakeManifest(call[1], call[2], call[3], writes + 1),
                        SteppedSoFar + 1, CrashesSoFar) >>
  /\ writes' = writes + 1
  /\ last' = NoCall
  /\ UNCHANGED <<fs, now, dl, bk, cls, an, ext, fw>>

\* a call in progress takes its next step
Step ==
  /\ \E i \in DOMAIN wr :
       /\ wr[i].pc \notin Ended
       /\ \E r \in {StepCall(fs, wr[i], now)} :
            /\ fs' = r.root
            /\ wr' = [wr EXCEPT ![i] = r.call]
  /\ UNCHANGED <<now, writes, last, dl, bk, cls, an, ext, fw>>

\* the process dies: before the step the call has reached, or in the middle
\* of the write of that step
Crash ==
  /\ wr # <<>>
  /\ wr[1].pc \in ChangingPcs
  /\ \E torn \in BOOLEAN :
       /\ torn => wr[1].pc \in WritingPcs
       /\ fs' = IF torn THEN Tear(fs, StepCall(fs, wr[1], now).root) ELSE fs
  /\ wr' = [wr EXCEPT ![1].pc = "crashed", ![1].crashes = Append(@, wr[1].pc)]
  /\ UNCHANGED <<now, writes, last, dl, bk, cls, an, ext, fw>>

\* a whole call between two calls followed step by step
WriteAlone ==
  /\ AllEnded
  /\ writes < MaxSteppedWrites
  /\ \E call \in SteppedCalls : WriteCall(call)
  /\ UNCHANGED <<now, dl, bk, cls, an, ext, wr, fw>>

NextCrash == WriteAlone \/ Begin \/ Step \/ Crash

SpecCrash == InitStore /\ [][NextCrash]_vars

\* a call starts beside a call in progress for another (chain, wallet)
BeginBeside ==
  /\ Len(wr) < MaxWriters
  /\ \E call \in Calls :
       /\ \A i \in DOMAIN wr :
            <<wr[i].chainName, wr[i].walletAddress>> # <<call[1], call[2]>>
       /\ wr' = Append(wr, NewCall(fs, call[1], call[2],
                             MakeManifest(call[1], call[2], call[3], writes + 1),
                             Len(wr) + 1, <<>>))
  /\ writes' = writes + 1
  /\ last' = NoCall
  /\ UNCHANGED <<fs, now, dl, bk, cls, an, ext, fw>>

NextConcurrent == BeginBeside \/ Step

SpecConcurrent == InitStore /\ [][NextConcurrent]_vars

(***************************************************************************)
(* One call downloadAsset(url, destPath)                                   *)
(***************************************************************************)
GatewayUrl == Https(<<"host", "ipfs", "io">>, << <<"/ipfs/">>, CidV0, <<"/img.png">> >>)
PlainUrl == Https(<<"host", "cdn", "example", "com">>, << <<"/nft.png">> >>)
NoCidUrl == Https(<<"host", "ipfs", "io">>, << <<"/ipfs/">>, <<"readme">> >>)

DownloadUrls == {GatewayUrl, PlainUrl, NoCidUrl}

InitDownload ==
  /\ StoreEmpty
  /\ bk = BkIdle
  /\ cls = ClsIdle
  /\ an = AnIdle
  /\ ext = ExtIdle
  /\ wr = WrIdle
  /\ fw = FwIdle
  /\ \E url \in DownloadUrls : dl = [DlIdle EXCEPT !.pc = "called", !.url = url]

\* lines 62-74: build the candidate list and enter the loops
DlEnter ==
  /\ dl.pc = "called"
  /\ dl' = [dl EXCEPT !.pc = "fetch",
                      !.urlsToTry = UrlsToTry(dl.url),
                      !.attempts = [i \in DOMAIN UrlsToTry(dl.url) |-> 0],
                      !.tryIdx = 1,
                      !.attempt = 0]
  /\ UNCHANGED <<fs, now, writes, last, bk, cls, an, ext, wr, fw>>

\* the pathname of a candidate as getExtensionFromUrl sees it: "/nft.png" for
\* the plain URL, "/ipfs/Qm", without a dot, for the others
CandidateUrl(tryUrl) ==
  [ absolute |-> TRUE,
    path |-> IF tryUrl = PlainUrl
             THEN <<SLASH, 110, 102, 116, DOT, 112, 110, 103>>
             ELSE <<SLASH, 105, 112, 102, 115, SLASH, 81, 109>>,
    query |-> Absent, fragment |-> Absent ]

\* the content-type header of a response: none, or image/jpeg
ResponseTypes == { UndefinedType, <<"image/jpeg">> }

\* lines 94-99: destPath with its extension replaced
FinalExt(d, contentType) ==
  getExtensionFromUrl(CandidateUrl(d.urlsToTry[d.tryIdx]), contentType)

\* line 107: createWriteStream(finalPath) creates the file or empties it
OpenFile(d, finalExt) ==
  [d EXCEPT !.finalExt = finalExt, !.disk = (finalExt :> "partial") @@ @]

\* line 111: pipeline() has written the whole body, or has failed and closed
\* the file with what had arrived
CloseFile(d, outcome) ==
  IF outcome = "ok" THEN [d EXCEPT !.disk = (d.finalExt :> "whole") @@ @] ELSE d

\* lines 76-129: one attempt on the current candidate
DlAttempt ==
  /\ dl.pc = "fetch"
  /\ \E outcome \in Outcomes :
       IF outcome \in {"ok", "streamError"}
       THEN \E contentType \in ResponseTypes :
              dl' = AttemptStep(CloseFile(OpenFile(dl, FinalExt(dl, contentType)), outcome),
                                outcome)
       ELSE dl' = AttemptStep(dl, outcome)
  /\ UNCHANGED <<fs, now, writes, last, bk, cls, an, ext, wr, fw>>

\* line 127: the backoff delay elapses, the inner loop goes on
DlBackoff ==
  /\ dl.pc = "backoff"
  /\ dl' = [dl EXCEPT !.pc = "fetch", !.attempt = @ + 1, !.delay = 0]
  /\ UNCHANGED <<fs, now, writes, last, bk, cls, an, ext, wr, fw>>

\* lines 78-107: fetch resolves with a 2xx response that has a body, within
\* REQUEST_TIMEOUT; clearTimeout(timeoutId) disarms the abort, the file is
\* opened and the body is not read yet
DlHeaders ==
  /\ dl.pc = "fetch"
  /\ \E t \in {0, REQUEST_TIMEOUT}, contentType \in ResponseTypes :
       dl' = [OpenFile(dl, FinalExt(dl, contentType)) EXCEPT !.pc = "streaming", !.elapsed = t]
  /\ UNCHANGED <<fs, now, writes, last, bk, cls, an, ext, wr, fw>>

\* line 111: pipeline() waits for the body and the server sends nothing for
\* another REQUEST_TIMEOUT
DlStall ==
  /\ dl.pc = "streaming"
  /\ dl.elapsed < MaxStall * REQUEST_TIMEOUT
  /\ dl' = [dl EXCEPT !.elapsed = @ + REQUEST_TIMEOUT]
  /\ UNCHANGED <<fs, now, writes, last, bk, cls, an, ext, wr, fw>>

\* lines 111-117: the body ends, or the connection breaks and pipeline() rejects
DlStreamEnd ==
  /\ dl.pc = "streaming"
  /\ \E outcome \in {"ok", "streamError"} :
       dl' = [AttemptStep(CloseFile(dl, outcome), outcome) EXCEPT !.elapsed = 0]
  /\ UNCHANGED <<fs, now, writes, last, bk, cls, an, ext, wr, fw>>

NextDownload == DlEnter \/ DlAttempt \/ DlBackoff \/ DlHeaders \/ DlStall \/ DlStreamEnd

SpecDownload == InitDownload /\ [][NextDownload]_vars

(***************************************************************************)
(* One call classifyUrl(url)                                               *)
(***************************************************************************)
HostToks ==
  { <<"host", "ipfs", "io">>, <<"host", "IPFS", "IO">>, <<"host", "sub", "ipfs", "io">>,
    <<"host", "notipfs", "io">>, <<"host", "arweave", "net">>,
    <<"host", "www", "arweave", "net">>, <<"host", "cdn", "example", "com">> }

CidToks == {CidV0, CidV1, CidQmShort, CidBafyShort}

PathSuffixes ==
  { <<>>, << <<"/nft.png">> >> }
    \cup { << <<"/ipfs/">>, c >> : c \in CidToks }
    \cup { << <<"/ipfs/">>, <<"readme">> >> }

\* the strings of the model, before any surrounding blanks
UrlBodies ==
  { <<>>, << <<"not-a-valid-url">> >>, << <<"mailto:a">> >> }
    \cup { <<c>> : c \in CidToks }
    \cup { << <<"/ipfs/">>, c >> : c \in CidToks }
    \cup { << <<"data:">>, <<"image/png;base64,AAAA">> >> }
    \cup { << <<"ipfs://">>, c >> : c \in CidToks }
    \cup { << <<"ar://">>, <<"txid">> >> }
    \cup { << <<"data:">>, <<"/ipfs/">>, CidV0 >>, << <<"ar://">>, <<"/ipfs/">>, CidV0 >>,
           << <<"ipfs://">>, <<"ar://">>, <<"txid">> >> }
    \cup { << s, h >> \o rest : s \in { <<"https://">>, <<"http://">> },
                                h \in HostToks, rest \in PathSuffixes }

Blanks == { <<>>, <<Blank>>, <<Blank, Blank>> }

UrlArguments ==
  {NullUrl, UndefinedUrl}
    \cup { Str(lead \o body \o trail) : lead \in Blanks, body \in UrlBodies, trail \in Blanks }

InitClassify ==
  /\ StoreEmpty
  /\ dl = DlIdle
  /\ bk = BkIdle
  /\ an = AnIdle
  /\ ext = ExtIdle
  /\ wr = WrIdle
  /\ fw = FwIdle
  /\ \E url \in UrlArguments : cls = [pc |-> "called", url |-> url]

Classify ==
  /\ cls.pc = "called"
  /\ cls' = [pc |-> "done", url |-> cls.url, result |-> classifyUrl(cls.url)]
  /\ UNCHANGED <<fs, now, writes, last, dl, bk, an, ext, wr, fw>>

NextClassify == Classify

SpecClassify == InitClassify /\ [][NextClassify]_vars

(***************************************************************************)
(* One call getExtensionFromUrl(url, contentType)                          *)
(***************************************************************************)
\* "img.jpg", "IMG.PNG", "a.tar.gz", "img", "v1.2/img", "img.p-ng", "img." and ""
UrlPaths ==
  { <<105, 109, 103, DOT, 106, 112, 103>>,
    <<73, 77, 71, DOT, 80, 78, 71>>,
    <<97, DOT, 116, 97, 114, DOT, 103, 122>>,
    <<105, 109, 103>>,
    <<118, 49, DOT, 50, SLASH, 105, 109, 103>>,
    <<105, 109, 103, DOT, 112, DASH, 110, 103>>,
    <<105, 109, 103, DOT>>,
    <<>> }

\* no query, "s=1" and "f=a.gif"; no fragment, "top" and "v.webp"
UrlQueries == { Absent, <<115, 61, 49>>, <<102, 61, 97, DOT, 103, 105, 102>> }
UrlFragments == { Absent, <<116, 111, 112>>, <<118, DOT, 119, 101, 98, 112>> }

ExtensionUrls ==
  { [absolute |-> a, path |-> p, query |-> q, fragment |-> f] :
      a \in BOOLEAN, p \in UrlPaths, q \in UrlQueries, f \in UrlFragments }

ContentTypes ==
  { UndefinedType, <<>>, <<"image/png">>, <<"IMAGE/PNG">>, <<"Image/Jpeg">>,
    <<"image/png", ";", " ", "charset=utf-8">>, <<" ", "image/png", " ">>,
    <<"image/png", " ", "x">>, <<";", "image/png">>,
    <<"application/octet-stream">>, <<"video/mp4">>, <<"constructor">> }

InitExtension ==
  /\ StoreEmpty
  /\ dl = DlIdle
  /\ bk = BkIdle
  /\ cls = ClsIdle
  /\ an = AnIdle
  /\ wr = WrIdle
  /\ fw = FwIdle
  /\ \E url \in ExtensionUrls, contentType \in ContentTypes :
       ext = [pc |-> "called", url |-> url, contentType |-> contentType,
              result |-> Absent]

GetExtension ==
  /\ ext.pc = "called"
  /\ ext' = [ext EXCEPT !.pc = "done",
                        !.result = getExtensionFromUrl(ext.url, ext.contentType)]
  /\ UNCHANGED <<fs, now, writes, last, dl, bk, cls, an, wr, fw>>

NextExtension == GetExtension

SpecExtension == InitExtension /\ [][NextExtension]_vars

(***************************************************************************)
(* One call analyzeNFTStorage(nft, metadata), then getStorageStatus        *)
(***************************************************************************)
ArUri == Str(<< <<"ar://">>, <<"txid">> >>)
BlankUrl == Str(<<Blank>>)
GatewayImage == Str(GatewayUrl)
PlainImage == Str(PlainUrl)

\* nft.tokenUri: unset, empty, or a string
TokenUris ==
  { UndefinedUrl, Str(<<>>), Str(<< <<"ipfs://">>, CidV0 >>), Str(<<CidV1>>),
    Str(Https(<<"host", "api", "example", "com">>, << <<"/metadata">> >>)), BlankUrl }

\* metadata.image and metadata.animation_url: unset, empty, or a string
MediaUrls == { UndefinedUrl, Str(<<>>), GatewayImage, ArUri, PlainImage, BlankUrl }

Metadatas ==
  {NoMetadata} \cup { Metadata(i, a) : i \in MediaUrls, a \in MediaUrls }

AnalyzedNft(tokenUri) ==
  [ contractAddress |-> <<49>>, tokenId |-> <<49>>, name |-> <<78>>,
    tokenUri |-> tokenUri, liveMetadata |-> NoMetadata, cachedMetadata |-> NoMetadata,
    cachedImageUrl |-> UndefinedUrl, cachedAnimationUrl |-> UndefinedUrl ]

InitAnalyze ==
  /\ StoreEmpty
  /\ dl = DlIdle
  /\ bk = BkIdle
  /\ cls = ClsIdle
  /\ ext = ExtIdle
  /\ wr = WrIdle
  /\ fw = FwIdle
  /\ \E tokenUri \in TokenUris, metadata \in Metadatas :
       an = [pc |-> "called", nft |-> AnalyzedNft(tokenUri), metadata |-> metadata]

Analyze ==
  /\ an.pc = "called"
  /\ LET report == analyzeNFTStorage(an.nft, an.metadata)
     IN an' = [ pc |-> "done", nft |-> an.nft, metadata |-> an.metadata,
                report |-> report, status |-> getStorageStatus(report) ]
  /\ UNCHANGED <<fs, now, writes, last, dl, bk, cls, ext, wr, fw>>

NextAnalyze == Analyze

SpecAnalyze == InitAnalyze /\ [][NextAnalyze]_vars

(***************************************************************************)
(* One run of the backup command, cli.ts lines 370-564                     *)
(***************************************************************************)
IpfsUri == Str(<< <<"ipfs://">>, CidV0 >>)
CentralUri == Str(Https(<<"host", "api", "example", "com">>, << <<"/metadata">> >>))
CentralImage == Str(PlainUrl)
CachedImage == Str(Https(<<"host", "cdn", "example", "com">>, << <<"/fallback.png">> >>))
CentralAnimation == Str(Https(<<"host", "cdn", "example", "com">>, << <<"/nft.mp4">> >>))

Asset(contract, token, tokenUri, live, cached, cachedImage, cachedAnimation) ==
  [ contractAddress |-> contract, tokenId |-> token, name |-> <<78>>,
    tokenUri |-> tokenUri, liveMetadata |-> live, cachedMetadata |-> cached,
    cachedImageUrl |-> cachedImage, cachedAnimationUrl |-> cachedAnimation ]

\* at-risk image behind a safe token URI, with a cached copy of the image
RiskyImageNft ==
  Asset(<<49>>, <<49>>, IpfsUri, Metadata(CentralImage, UndefinedUrl),
        Metadata(CentralImage, UndefinedUrl), CachedImage, UndefinedUrl)

\* at-risk token URI and animation, safe image, nothing cached
RiskyAnimationNft ==
  Asset(<<50>>, <<50>>, CentralUri, Metadata(IpfsUri, CentralAnimation),
        NoMetadata, UndefinedUrl, UndefinedUrl)

\* everything on IPFS
SafeNft ==
  Asset(<<51>>, <<51>>, IpfsUri, Metadata(IpfsUri, UndefinedUrl),
        Metadata(IpfsUri, UndefinedUrl), UndefinedUrl, UndefinedUrl)

\* contract address "../bad"
BadPathNft ==
  Asset(<<DOT, DOT, SLASH, 98>>, <<54>>, IpfsUri, Metadata(CentralImage, UndefinedUrl),
        Metadata(CentralImage, UndefinedUrl), UndefinedUrl, UndefinedUrl)

\* token id "..\7"
BadTokenNft ==
  Asset(<<52>>, <<DOT, DOT, BSLASH, 55>>, CentralUri, Metadata(CentralImage, UndefinedUrl),
        NoMetadata, UndefinedUrl, UndefinedUrl)

DiscoveredKinds == {RiskyImageNft, RiskyAnimationNft, SafeNft, BadPathNft, BadTokenNft}

Discoveries ==
  UNION { [1..n -> DiscoveredKinds] : n \in 1..MaxAssets }

BackupWallet == <<97>>
BackupChain == <<122>>

InitBackup ==
  /\ StoreEmpty
  /\ dl = DlIdle
  /\ cls = ClsIdle
  /\ an = AnIdle
  /\ ext = ExtIdle
  /\ wr = WrIdle
  /\ fw = FwIdle
  /\ \E nfts \in Discoveries, all \in BOOLEAN :
       bk = [ pc |-> "analyze", options |-> [all |-> all], nfts |-> nfts, analyzed |-> 0,
              nftsToBackup |-> <<>>, i |-> 0, entries |-> <<>>,
              summary |-> [ totalNFTs |-> 0, fullyDecentralized |-> 0, atRisk |-> 0,
                            backedUp |-> 0, failed |-> 0 ],
              downloads |-> <<>>, writeCalls |-> 0, exitCode |-> 0, message |-> Absent ]

\* lines 427-453: one iteration of the analysis loop
BkAnalyze ==
  /\ bk.pc = "analyze"
  /\ bk.analyzed < Len(bk.nfts)
  /\ \E fetchOk \in BOOLEAN :
       LET nft == bk.nfts[bk.analyzed + 1]
           fetched == IF Truthy(nft.tokenUri)
                      THEN (IF fetchOk THEN nft.liveMetadata ELSE nft.cachedMetadata)
                      ELSE NoMetadata
           metadata == IF ~fetched.present THEN nft.cachedMetadata ELSE fetched
           report == analyzeNFTStorage(nft, metadata)
           selected == ~report.isFullyDecentralized \/ bk.options.all
       IN bk' = [bk EXCEPT !.analyzed = @ + 1,
                           !.nftsToBackup =
                              IF selected THEN Append(@, [nft |-> nft, report |-> report])
                              ELSE @]
  /\ UNCHANGED <<fs, now, writes, last, dl, cls, an, ext, wr, fw>>

\* atRisk counts the selected assets whose report is not fully decentralized
NewSummaryReportedAtRisk(nfts, nftsToBackup) ==
  [ totalNFTs |-> Len(nfts),
    fullyDecentralized |-> Len(nfts) - Len(nftsToBackup),
    atRisk |-> Len(SelectSeq(nftsToBackup, LAMBDA e : ~e.report.isFullyDecentralized)),
    backedUp |-> 0, failed |-> 0 ]

\* lines 455 and 494-500: the summary the run starts from
NewSummary(nfts, nftsToBackup) ==
  [ totalNFTs |-> Len(nfts),
    fullyDecentralized |-> Len(nfts) - Len(nftsToBackup),
    atRisk |-> Len(nftsToBackup),
    backedUp |-> 0, failed |-> 0 ]

\* lines 455-511: nothing to back up, or the summary and the manifest are set up
BkSelect ==
  /\ bk.pc = "analyze"
  /\ bk.analyzed = Len(bk.nfts)
  /\ bk' = IF Len(bk.nftsToBackup) = 0
           THEN [bk EXCEPT !.pc = "done"]
           ELSE [bk EXCEPT !.pc = "backup",
                           !.i = 0,
                           !.summary = NewSummary(bk.nfts, bk.nftsToBackup)]
  /\ UNCHANGED <<fs, now, writes, last, dl, cls, an, ext, wr, fw>>

\* an asset whose backup failed gets no entry
RecordResultUnlessFailed(b, nft, report, result) ==
  IF result.error # Absent
  THEN [b EXCEPT !.i = @ + 1,
                 !.summary.failed = @ + 1,
                 !.downloads = Append(@, [ image |-> result.image,
                                           animation |-> result.animation ])]
  ELSE [b EXCEPT !.i = @ + 1,
                 !.entries = Append(@, ManifestEntry(nft, report, result)),
                 !.summary.backedUp = @ + 1,
                 !.downloads = Append(@, [ image |-> result.image,
                                           animation |-> result.animation ])]

\* lines 518-536: the entry is pushed and the asset counted; downloads keeps,
\* per asset, what the downloadAsset calls of backupNFT came to
RecordResult(b, nft, report, result) ==
  [b EXCEPT !.i = @ + 1,
            !.entries = Append(@, ManifestEntry(nft, report, result)),
            !.summary.failed = IF result.error # Absent THEN @ + 1 ELSE @,
            !.summary.backedUp = IF result.error # Absent THEN @ ELSE @ + 1,
            !.downloads = Append(@, [ image |-> result.image,
                                      animation |-> result.animation ])]

\* lines 513-538: one iteration of the backup loop; a throw of backupNFT is
\* caught at line 558, which reports its message and sets the exit code
BkBackupOne ==
  /\ bk.pc = "backup"
  /\ bk.i < Len(bk.nftsToBackup)
  /\ \E fetchOk \in BOOLEAN, imageThrows \in [1..2 -> BOOLEAN],
        animThrows \in [1..2 -> BOOLEAN] :
       LET nft == bk.nftsToBackup[bk.i + 1].nft
           report == bk.nftsToBackup[bk.i + 1].report
           res == backupNFT(nft, bk.options,
                            [ fetchOk |-> fetchOk, imageThrows |-> imageThrows,
                              animThrows |-> animThrows ])
       IN IF res.threw
          THEN bk' = [bk EXCEPT !.pc = "failed", !.exitCode = 1, !.message = res.error]
          ELSE bk' = RecordResult(bk, nft, report, res.value)
  /\ UNCHANGED <<fs, now, writes, last, dl, cls, an, ext, wr, fw>>

\* lines 543-548: the manifest is saved
BkWrite ==
  /\ bk.pc = "backup"
  /\ bk.i = Len(bk.nftsToBackup)
  /\ LET manifest == [ walletAddress |-> BackupWallet, ensName |-> Absent,
                       chainName |-> BackupChain, chainId |-> ZoraChainId,
                       backupDate |-> Decimal(1), summary |-> bk.summary,
                       nfts |-> bk.entries ]
         res == writeManifestWithHistory(fs, BackupChain, BackupWallet, manifest, now)
     IN /\ fs' = res.root
        /\ bk' = [bk EXCEPT !.pc = IF res.ok THEN "done" ELSE "failed",
                            !.exitCode = IF res.ok THEN @ ELSE 1,
                            !.writeCalls = @ + 1]
  /\ UNCHANGED <<now, writes, last, dl, cls, an, ext, wr, fw>>

NextBackup == BkAnalyze \/ BkSelect \/ BkBackupOne \/ BkWrite

SpecBackup == InitBackup /\ [][NextBackup]_vars

(***************************************************************************)
(* The backup loop step by step: every await of cli.ts lines 247-365 and   *)
(* 513-538 is a step of its own                                            *)
(***************************************************************************)
Media == {"image", "animation"}

\* line 247: a call of backupNFT that has passed the path checks
NewBackupCall(nft) ==
  [ pc |-> "fetchMetadata", nft |-> nft, storageReport |-> NoReport,
    urls |-> [m \in Media |-> <<>>], got |-> [m \in Media |-> NoDownload],
    inFlight |-> FALSE, result |-> NoReport ]

InitBackupSteps ==
  /\ StoreEmpty
  /\ dl = DlIdle
  /\ cls = ClsIdle
  /\ an = AnIdle
  /\ ext = ExtIdle
  /\ wr = WrIdle
  /\ fw = FwIdle
  /\ \E nfts \in Discoveries, all \in BOOLEAN :
       bk = [ pc |-> "analyze", options |-> [all |-> all], nfts |-> nfts, analyzed |-> 0,
              nftsToBackup |-> <<>>, i |-> 0, entries |-> <<>>,
              summary |-> [ totalNFTs |-> 0, fullyDecentralized |-> 0, atRisk |-> 0,
                            backedUp |-> 0, failed |-> 0 ],
              downloads |-> <<>>, writeCalls |-> 0, exitCode |-> 0, message |-> Absent,
              began |-> 0, calls |-> <<>> ]

\* the loop calls backupNFT for the next asset without awaiting the last call
LoopMayCallUnawaited(b) ==
  /\ b.pc = "backup"
  /\ b.began < Len(b.nftsToBackup)

\* lines 513-516: `const result = await backupNFT(...)` in the body of the
\* for loop: the next call is made when the iteration before it has ended
LoopMayCall(b) ==
  /\ b.pc = "backup"
  /\ b.began = b.i
  /\ b.began < Len(b.nftsToBackup)

\* lines 516 and 260-262: backupNFT is called; an invalid path segment
\* rejects the call, which ends the run at line 558
BkCall ==
  /\ LoopMayCall(bk)
  /\ LET k == bk.began + 1
         nft == bk.nftsToBackup[k].nft
         safeContract == sanitizePathSegment(nft.contractAddress)
         safeTokenId == sanitizePathSegment(nft.tokenId)
     IN IF ~safeContract.ok \/ ~safeTokenId.ok
        THEN bk' = [bk EXCEPT !.pc = "failed", !.exitCode = 1,
                              !.message = IF ~safeContract.ok THEN safeContract.error
                                          ELSE safeTokenId.error]
        ELSE bk' = [bk EXCEPT !.began = k,
                              !.calls = (k :> NewBackupCall(nft)) @@ @]
  /\ UNCHANGED <<fs, now, writes, last, dl, cls, an, ext, wr, fw>>

\* lines 267-292: no metadata, the call returns an error
NoMetadataResult ==
  [ metadataFile |-> Absent, imageFile |-> Absent, animationFile |-> Absent,
    storageReportFile |-> Absent, storageReport |-> NoReport,
    error |-> NoMetadataError, image |-> NoDownload, animation |-> NoDownload ]

\* lines 267-324 and 339-344: fetchMetadata has settled; the report and the
\* URLs of both media are worked out
MetadataSettled(c, fetchOk) ==
  LET nft == c.nft
      fetched == IF Truthy(nft.tokenUri) /\ fetchOk THEN nft.liveMetadata ELSE NoMetadata
      metadata == IF ~fetched.present /\ nft.cachedMetadata.present
                  THEN nft.cachedMetadata ELSE fetched
      mediaUrls == extractMediaUrls(metadata)
  IN IF ~metadata.present
     THEN [c EXCEPT !.pc = "returned", !.result = NoMetadataResult]
     ELSE [c EXCEPT !.pc = "image",
                    !.storageReport = [present |-> TRUE,
                                       report |-> analyzeNFTStorage(nft, metadata)],
                    !.urls = [ image |-> UrlsToDownload(mediaUrls.image,
                                                        nft.cachedImageUrl),
                               animation |-> UrlsToDownload(mediaUrls.animation,
                                                            nft.cachedAnimationUrl) ]]

BkMetadata ==
  /\ \E k \in DOMAIN bk.calls, fetchOk \in BOOLEAN :
       /\ bk.calls[k].pc = "fetchMetadata"
       /\ bk' = [bk EXCEPT !.calls[k] = MetadataSettled(@, fetchOk)]
  /\ UNCHANGED <<fs, now, writes, last, dl, cls, an, ext, wr, fw>>

\* the analysis of the medium the call is at
AnalysisOf(c, medium) ==
  IF medium = "image" THEN c.storageReport.report.image
  ELSE c.storageReport.report.animation

\* lines 327-336 and 347-356: the loop over the URLs of a medium goes on
MoreToTry(c, options) ==
  /\ c.pc \in Media
  /\ ShouldDownload(c.urls[c.pc], AnalysisOf(c, c.pc), options)
  /\ c.got[c.pc].file = Absent
  /\ c.got[c.pc].calls < Len(c.urls[c.pc])

\* lines 329 and 349: downloadAsset is called on the next URL of the medium
BkDownloadStart ==
  /\ \E k \in DOMAIN bk.calls :
       /\ MoreToTry(bk.calls[k], bk.options)
       /\ ~bk.calls[k].inFlight
       /\ bk' = [bk EXCEPT !.calls[k].inFlight = TRUE]
  /\ UNCHANGED <<fs, now, writes, last, dl, cls, an, ext, wr, fw>>

\* lines 329-335 and 349-355: the call returns a path or throws
DownloadSettled(c, throws) ==
  LET n == c.got[c.pc].calls + 1
  IN [c EXCEPT !.inFlight = FALSE,
               !.got[c.pc] = [ file |-> IF throws THEN Absent ELSE <<102, 48 + n>>,
                               calls |-> n ]]

BkDownloadEnd ==
  /\ \E k \in DOMAIN bk.calls, throws \in BOOLEAN :
       /\ bk.calls[k].inFlight
       /\ bk' = [bk EXCEPT !.calls[k] = DownloadSettled(@, throws)]
  /\ UNCHANGED <<fs, now, writes, last, dl, cls, an, ext, wr, fw>>

\* lines 338 and 358: after the image the animation, after the animation
\* the return of the result
MediumOver(c) ==
  IF c.pc = "image" THEN [c EXCEPT !.pc = "animation"]
  ELSE [c EXCEPT !.pc = "returned",
                 !.result = [ metadataFile |-> MetadataFile,
                              imageFile |-> c.got["image"].file,
                              animationFile |-> c.got["animation"].file,
                              storageReportFile |-> StorageReportFile,
                              storageReport |-> c.storageReport,
                              error |-> Absent,
                              image |-> c.got["image"],
                              animation |-> c.got["animation"] ]]

BkMediumOver ==
  /\ \E k \in DOMAIN bk.calls :
       /\ bk.calls[k].pc \in Media
       /\ ~bk.calls[k].inFlight
       /\ ~MoreToTry(bk.calls[k], bk.options)
       /\ bk' = [bk EXCEPT !.calls[k] = MediumOver(@)]
  /\ UNCHANGED <<fs, now, writes, last, dl, cls, an, ext, wr, fw>>

\* lines 518-536: the awaited call has returned; its entry is recorded
BkRecord ==
  /\ \E k \in DOMAIN bk.calls :
       /\ bk.calls[k].pc = "returned"
       /\ bk' = [RecordResult(bk, bk.nftsToBackup[k].nft, bk.nftsToBackup[k].report,
                              bk.calls[k].result)
                   EXCEPT !.calls[k].pc = "recorded"]
  /\ UNCHANGED <<fs, now, writes, last, dl, cls, an, ext, wr, fw>>

NextBackupSteps ==
  \/ BkAnalyze
  \/ BkSelect
  \/ BkCall
  \/ BkMetadata
  \/ BkDownloadStart
  \/ BkDownloadEnd
  \/ BkMediumOver
  \/ BkRecord
  \/ BkWrite

SpecBackupSteps == InitBackupSteps /\ [][NextBackupSteps]_vars

(***************************************************************************)
(* One fetchWithRetry call, metadata.ts (part_016) lines 141-189           *)
(***************************************************************************)
\* what fetch comes to: a response with its status, or a rejection with the
\* name of its error
Response(status) == [kind |-> "response", status |-> status]
Rejection(name) == [kind |-> "rejection", name |-> name]

FetchAnswers ==
  { Response(200), Response(304), Response(404), Response(429), Response(500),
    Rejection("AbortError"), Rejection("TypeError") }

\* line 165: `HTTP ${response.status}: ${response.statusText}`
HttpStatusError(status) == [name |-> "Error", message |-> <<"HTTP", status>>]

\* line 174
TimedOutError == [name |-> "Error", message |-> <<"Request timed out after", REQUEST_TIMEOUT>>]

\* line 170: the error of a rejected fetch
RejectionError(name) == [name |-> name, message |-> <<name>>]

\* line 159: response.ok
ResponseOk(status) == status >= 200 /\ status < 300

\* line 164
ClientErrorNot429(status) == status >= 400 /\ status < 500 /\ status # 429

InitFetch ==
  /\ StoreEmpty
  /\ dl = DlIdle
  /\ bk = BkIdle
  /\ cls = ClsIdle
  /\ an = AnIdle
  /\ ext = ExtIdle
  /\ wr = WrIdle
  /\ fw = [ pc |-> "fetch", attempt |-> 0, lastError |-> Absent, answers |-> <<>>,
            delays |-> <<>>, thrown |-> Absent ]

\* lines 178-188: the backoff, the increment of the loop and, after the last
\* attempt, the throw of lastError
EndOfAttempt(f) ==
  LET slept == IF f.attempt < RETRY_CONFIG.maxRetries - 1
               THEN [f EXCEPT !.delays = Append(@, BackoffDelay(f.attempt))]
               ELSE f
  IN IF f.attempt + 1 < RETRY_CONFIG.maxRetries
     THEN [slept EXCEPT !.attempt = @ + 1]
     ELSE [slept EXCEPT !.attempt = @ + 1, !.pc = "thrown", !.thrown = f.lastError]

\* lines 169-176: the catch of the loop body, around everything the try
\* block throws
Caught(f, error) ==
  IF error.name = "AbortError" /\ f.attempt = 0
  THEN [f EXCEPT !.lastError = error, !.pc = "thrown", !.thrown = TimedOutError]
  ELSE EndOfAttempt([f EXCEPT !.lastError = error])

\* lines 148-176: one pass of the loop body on what fetch came to
FetchAttempt(f, answer) ==
  LET met == [f EXCEPT !.answers = Append(@, answer)]
  IN IF answer.kind = "rejection" THEN Caught(met, RejectionError(answer.name))
     ELSE IF ResponseOk(answer.status) THEN [met EXCEPT !.pc = "returned"]
     ELSE IF ClientErrorNot429(answer.status)
     THEN Caught(met, HttpStatusError(answer.status))
     ELSE EndOfAttempt([met EXCEPT !.lastError = HttpStatusError(answer.status)])

FwAttempt ==
  /\ fw.pc = "fetch"
  /\ \E answer \in FetchAnswers : fw' = FetchAttempt(fw, answer)
  /\ UNCHANGED <<fs, now, writes, last, dl, bk, cls, an, ext, wr>>

NextFetch == FwAttempt

SpecFetch == InitFetch /\ [][NextFetch]_vars

(***************************************************************************)
(* Properties of the manifest store                                        *)
(***************************************************************************)
CanonicalBefore == last.before.manifests[last.path]

HadCanonical == last.made /\ last.path \in DOMAIN last.before.manifests

NewHistoryNames == DOMAIN fs.history \ DOMAIN last.before.history

NewRunNames == DOMAIN fs.runs \ DOMAIN last.before.runs

\* the names getUniqueHistoryPath can give to a snapshot of (chain, wallet)
SnapshotNamesOf(chainName, walletAddress) ==
  { getManifestBaseName(chainName, walletAddress).value \o <<DOT>>
      \o formatTimestampForFilename(t) \o Suffix(n) \o JsonExt :
      t \in 0..MaxTime, n \in 0..MaxWrites }

SnapshotsKept(chainName, walletAddress) ==
  DOMAIN fs.history \cap SnapshotNamesOf(chainName, walletAddress)

\* C1: every call for a (chain, wallet) whose canonical file exists leaves one
\* new file in history/ holding exactly the content the canonical file had
\* before the call; two successive writes T1, T2 leave exactly one history
\* file, holding the T1 manifest.
C1_SnapshotAddedOnOverwrite ==
  HadCanonical =>
    /\ Cardinality(NewHistoryNames) = 1
    /\ \A n \in NewHistoryNames : fs.history[n] = CanonicalBefore
    /\ (writes = 2 => /\ Cardinality(DOMAIN fs.history) = 1
                      /\ \A n \in DOMAIN fs.history :
                           fs.history[n].doc.backupDate = Decimal(1))


IdsOf(doc) == {getNftId(doc, doc.nfts[i]) : i \in DOMAIN doc.nfts}

EntryOf(doc, id) ==
  doc.nfts[CHOOSE i \in DOMAIN doc.nfts : getNftId(doc, doc.nfts[i]) = id]

\* the properties of an entry that are set, whatever their order
DefinedProperties(entry) == {entry[i] : i \in {j \in DOMAIN entry : entry[j][2] # Absent}}

PreviousIds == IF HadCanonical THEN IdsOf(CanonicalBefore.doc) ELSE {}

StrictlySorted(arr) ==
  \A i \in DOMAIN arr : \A j \in DOMAIN arr : i < j => StrLess(arr[i], arr[j])

IdA == getNftId(last.manifest, EntryA)
IdB == getNftId(last.manifest, EntryB)
IdC == getNftId(last.manifest, EntryC)

ExampleAB_BC ==
  /\ HadCanonical
  /\ PreviousIds = {IdA, IdB}
  /\ DefinedProperties(EntryOf(CanonicalBefore.doc, IdB)) = DefinedProperties(EntryB)
  /\ last.manifest.nfts = <<EntryC, EntryBUpdated>>

\* C2: the run record written by a call lists as added the Asset IDs of the
\* new manifest absent from the previous one, as updated those present in both
\* whose entries differ, as removed those of the previous manifest absent from
\* the new one, each list sorted and without repetition; previous {A, B} and
\* new {B', C} give added [C], updated [B], removed [A].
C2_RunRecordIsTheDelta ==
  last.made =>
    /\ Cardinality(NewRunNames) = 1
    /\ \A n \in NewRunNames :
         LET rec == fs.runs[n]
             nextIds == IdsOf(last.manifest)
         IN /\ Range(rec.added) = nextIds \ PreviousIds
            /\ Range(rec.updated) =
                 { id \in nextIds \cap PreviousIds :
                     DefinedProperties(EntryOf(CanonicalBefore.doc, id))
                       # DefinedProperties(EntryOf(last.manifest, id)) }
            /\ Range(rec.removed) = PreviousIds \ nextIds
            /\ StrictlySorted(rec.added)
            /\ StrictlySorted(rec.updated)
            /\ StrictlySorted(rec.removed)
            /\ (ExampleAB_BC => /\ rec.added = <<IdC>>
                                /\ rec.updated = <<IdB>>
                                /\ rec.removed = <<IdA>>)

C2_Witness ==
  /\ last.made
  /\ ExampleAB_BC
  /\ \E n \in NewRunNames : fs.runs[n].removed = <<IdA>>

\* C3: after every completed call the (chain, wallet) written has at most
\* MANIFEST_HISTORY_LIMIT snapshots, and after MANIFEST_HISTORY_LIMIT + 2
\* successive writes for it exactly MANIFEST_HISTORY_LIMIT.
C3_HistoryBounded ==
  last.made =>
    LET kept == Cardinality(SnapshotsKept(last.chainName, last.walletAddress))
    IN /\ kept <= MANIFEST_HISTORY_LIMIT
       /\ (last.streak >= MANIFEST_HISTORY_LIMIT + 2 => kept = MANIFEST_HISTORY_LIMIT)

\* the number of the write that produced a manifest file, read off its backupDate
StampOf(content) ==
  CHOOSE n \in 1..(MaxWrites + 1) : Decimal(n) = content.doc.backupDate

SnapshotsKeptBefore(chainName, walletAddress) ==
  DOMAIN last.before.history \cap SnapshotNamesOf(chainName, walletAddress)

\* C15: after every completed write the snapshots kept for the (chain, wallet)
\* are the MANIFEST_HISTORY_LIMIT most recently created ones among those kept
\* before the call and the one the call made, also when their names differ
\* by the collision suffix only.
C15_KeepsMostRecentSnapshots ==
  HadCanonical =>
    LET created == { StampOf(last.before.history[n]) :
                       n \in SnapshotsKeptBefore(last.chainName, last.walletAddress) }
                     \cup { StampOf(CanonicalBefore) }
        kept == { StampOf(fs.history[n]) :
                    n \in SnapshotsKept(last.chainName, last.walletAddress) }
    IN kept = { x \in created :
                  Cardinality({ y \in created : y > x }) < MANIFEST_HISTORY_LIMIT }

CanonicalAfter == fs.manifests[last.path]

\* C16: after a completed call the canonical file holds exactly the manifest
\* passed to the call: its fields, its entries in their order and nothing
\* else; no entry of the previous manifest that the new one lacks is left.
C16_CanonicalFullyReplaced ==
  last.made =>
    /\ last.path \in DOMAIN fs.manifests
    /\ CanonicalAfter.wellFormed
    /\ CanonicalAfter.doc.walletAddress = last.manifest.walletAddress
    /\ CanonicalAfter.doc.chainName = last.manifest.chainName
    /\ CanonicalAfter.doc.chainId = last.manifest.chainId
    /\ CanonicalAfter.doc.backupDate = last.manifest.backupDate
    /\ CanonicalAfter.doc.summary = last.manifest.summary
    /\ Len(CanonicalAfter.doc.nfts) = Len(last.manifest.nfts)
    /\ \A i \in DOMAIN last.manifest.nfts :
         DefinedProperties(CanonicalAfter.doc.nfts[i])
           = DefinedProperties(last.manifest.nfts[i])
    /\ IdsOf(CanonicalAfter.doc) \cap (PreviousIds \ IdsOf(last.manifest)) = {}

\* the previous manifest had an entry the new one lacks
C16_Witness ==
  /\ HadCanonical
  /\ PreviousIds \ IdsOf(last.manifest) # {}
  /\ CanonicalAfter.doc.backupDate = last.manifest.backupDate
  /\ CanonicalAfter.doc.backupDate # CanonicalBefore.doc.backupDate
  /\ IdsOf(CanonicalAfter.doc) = IdsOf(last.manifest)

\* C17: a call for a (chain, wallet) without canonical file makes no history
\* snapshot, and its run record lists every Asset ID of the new manifest as
\* added, with updated and removed empty.
C17_FirstWriteHasNoSnapshot ==
  (last.made /\ ~HadCanonical) =>
    /\ fs.history = last.before.history
    /\ Cardinality(NewRunNames) = 1
    /\ \A n \in NewRunNames :
         /\ Range(fs.runs[n].added) = IdsOf(last.manifest)
         /\ Len(fs.runs[n].added) = Cardinality(IdsOf(last.manifest))
         /\ fs.runs[n].updated = <<>>
         /\ fs.runs[n].removed = <<>>

\* the first write for the second wallet, when the first one has snapshots
C17_Witness ==
  /\ last.made
  /\ ~HadCanonical
  /\ DOMAIN fs.history # {}
  /\ fs.history = last.before.history
  /\ \E n \in NewRunNames : Len(fs.runs[n].added) = 2

\* the two manifests have the same entries: the same Asset IDs, each with the
\* same fields and values, whatever the order of keys and of entries
SameEntries(previous, next) ==
  /\ Len(previous.nfts) = Len(next.nfts)
  /\ IdsOf(previous) = IdsOf(next)
  /\ Cardinality(IdsOf(next)) = Len(next.nfts)
  /\ \A id \in IdsOf(next) :
       DefinedProperties(EntryOf(previous, id)) = DefinedProperties(EntryOf(next, id))

\* C18: writing a manifest whose entries are those of the existing canonical
\* manifest, whatever the order of the keys within an entry and of the
\* entries, gives a run record with added, updated and removed all empty.
C18_SameEntriesGiveEmptyDelta ==
  (HadCanonical /\ CanonicalBefore.wellFormed
     /\ SameEntries(CanonicalBefore.doc, last.manifest)) =>
    /\ last.ok
    /\ Cardinality(NewRunNames) = 1
    /\ \A n \in NewRunNames :
         /\ fs.runs[n].added = <<>>
         /\ fs.runs[n].updated = <<>>
         /\ fs.runs[n].removed = <<>>

\* the entries written again in another order, their keys in another order
C18_Witness ==
  /\ HadCanonical
  /\ CanonicalBefore.wellFormed
  /\ SameEntries(CanonicalBefore.doc, last.manifest)
  /\ CanonicalBefore.doc.nfts # [i \in DOMAIN last.manifest.nfts |->
                                   DropAbsent(last.manifest.nfts[i])]
  /\ \E n \in NewRunNames : fs.runs[n].summary.updated = 0

\* a segment that is empty or contains a slash, a backslash or ".."
IsInvalidSegment(seg) ==
  \/ seg = <<>>
  \/ \A i \in DOMAIN seg : seg[i] = SP
  \/ \E i \in DOMAIN seg : seg[i] \in {SLASH, BSLASH}
  \/ \E i \in 1..(Len(seg) - 1) : seg[i] = DOT /\ seg[i + 1] = DOT

InvalidCall ==
  /\ last.made
  /\ IsInvalidSegment(last.chainName) \/ IsInvalidSegment(last.walletAddress)

\* C19: a call with an invalid chain name or wallet address fails with a
\* validation error and creates, changes and deletes nothing under the root,
\* directories included; getManifestPath fails on the same arguments.
C19_InvalidSegmentChangesNothing ==
  InvalidCall =>
    /\ ~last.ok
    /\ last.error = "Invalid manifest segment"
    /\ ~getManifestPath(last.chainName, last.walletAddress).ok
    /\ fs = last.before

\* the canonical file the call had to read was not JSON
UnparsableCanonical ==
  /\ last.made
  /\ ~InvalidCall
  /\ LET path == getManifestPath(last.chainName, last.walletAddress).value.name
     IN /\ path \in DOMAIN last.before.manifests
        /\ ~last.before.manifests[path].wellFormed

\* C20: when the existing canonical file is not parsable JSON the call fails
\* and leaves the store as it was: history, runs, the canonical file, the
\* index and the bundle are untouched.
C20_UnparsableCanonicalChangesNothing ==
  UnparsableCanonical =>
    /\ ~last.ok
    /\ last.error = "SyntaxError"
    /\ fs.history = last.before.history
    /\ fs.runs = last.before.runs
    /\ fs.manifests = last.before.manifests
    /\ fs.gallery = last.before.gallery
    /\ fs = last.before

\* a damaged canonical file with a snapshot in history/, the call failed
C20_Witness ==
  /\ UnparsableCanonical
  /\ ~last.ok
  /\ DOMAIN fs.history # {}
  /\ fs = last.before

CanonicalPaths ==
  {ManifestRelPath(n) : n \in DOMAIN fs.manifests \ {IndexName}}

ListedPaths(index) == {index.manifests[i].path : i \in DOMAIN index.manifests}

\* C4: after every completed call the index and the gallery bundle list
\* exactly the canonical manifest files that exist under manifests/.
C4_IndexListsExistingManifests ==
  last.made =>
    /\ IndexName \in DOMAIN fs.manifests
    /\ ListedPaths(fs.manifests[IndexName]) = CanonicalPaths
    /\ Len(fs.manifests[IndexName].manifests) = Cardinality(CanonicalPaths)
    /\ ListedPaths(fs.gallery.index) = CanonicalPaths
    /\ Len(fs.gallery.index.manifests) = Cardinality(CanonicalPaths)
    /\ DOMAIN fs.gallery.manifests = CanonicalPaths

C4_Witness ==
  /\ last.made
  /\ Cardinality(CanonicalPaths) = 2
  /\ ListedPaths(fs.manifests[IndexName]) = CanonicalPaths
  /\ DOMAIN fs.gallery.manifests = CanonicalPaths

\* the canonical files of the other keys that are not the JSON of a manifest
\* when the call is made: not parsable, or without the manifest fields
Malformed(content) == ~content.wellFormed \/ content.doc = EmptyObject

MalformedOthers ==
  LET own == getManifestPath(last.chainName, last.walletAddress).value.name
  IN {n \in DOMAIN last.before.manifests \ {IndexName, own} :
        Malformed(last.before.manifests[n])}

\* the call's own canonical file, when there is one, is a manifest
OwnCanonicalSound ==
  LET own == getManifestPath(last.chainName, last.walletAddress).value.name
  IN own \in DOMAIN last.before.manifests => ~Malformed(last.before.manifests[own])

\* C21: a malformed canonical file of another key, unparsable or without the
\* manifest fields, never makes a call fail: the call completes, and the
\* index and the bundle written by it leave that file out.
C21_MalformedManifestsOfOthersAreSkipped ==
  (last.made /\ ~InvalidCall /\ OwnCanonicalSound) =>
    /\ last.ok
    /\ \A n \in MalformedOthers :
         /\ ManifestRelPath(n) \notin ListedPaths(fs.manifests[IndexName])
         /\ ManifestRelPath(n) \notin ListedPaths(fs.gallery.index)
         /\ ManifestRelPath(n) \notin DOMAIN fs.gallery.manifests

\* C5: every completed call adds exactly one file under runs/ and leaves the
\* existing run records as they are, so n completed calls leave n records.
C5_RunsAppendOnly ==
  last.made =>
    /\ \A n \in DOMAIN last.before.runs :
         n \in DOMAIN fs.runs /\ fs.runs[n] = last.before.runs[n]
    /\ Cardinality(NewRunNames) = 1
    /\ Cardinality(DOMAIN fs.runs) = writes

\* two calls for one key at one timestamp, both records kept
C5_Witness ==
  /\ last.made
  /\ last.streak >= 2
  /\ formatTimestampForFilename(now) = formatTimestampForFilename(0)
  /\ Cardinality(DOMAIN fs.runs) = writes
  /\ \E n \in NewRunNames : EndsWith(n, Suffix(1) \o JsonExt)



(***************************************************************************)
(* Properties of the downloader                                            *)
(***************************************************************************)
DlEnded == dl.pc \in {"returned", "thrown"}

Candidates == DOMAIN dl.urlsToTry

\* the attempts made are those up to and including the last one, in list order
AttemptsStopAtLast ==
  \A c \in Candidates :
    dl.attempts[c] = IF c < dl.lastAttempt.tryIdx THEN RETRY_CONFIG.maxRetries
                     ELSE IF c = dl.lastAttempt.tryIdx THEN dl.lastAttempt.attempt + 1
                     ELSE 0

\* C6 as stated: the call succeeds whenever some candidate answers 2xx within
\* its attempts, returns at the first success and attempts nothing after it.
C6_SucceedsOnAny2xx ==
  /\ (DlEnded /\ dl.answered2xx > 0) => dl.pc = "returned"
  /\ dl.pc = "returned" => dl.lastAttempt.outcome = "ok" /\ AttemptsStopAtLast

\* C6, amended: the call succeeds whenever some candidate answers 2xx with a
\* body that streams to disk completely, also after every earlier candidate
\* failed on all its attempts: it gives up only once every candidate has had
\* maxRetries attempts, and it returns at the first complete answer and
\* attempts nothing after it.
C6_SucceedsOnFirstCompleteAnswer ==
  /\ dl.pc = "thrown" =>
       /\ dl.completed = 0
       /\ \A c \in Candidates : dl.attempts[c] = RETRY_CONFIG.maxRetries
  /\ dl.completed > 0 =>
       /\ dl.pc = "returned"
       /\ dl.completed = 1
       /\ dl.lastAttempt.outcome = "ok"
       /\ dl.result.url = dl.urlsToTry[dl.lastAttempt.tryIdx]
       /\ AttemptsStopAtLast
  /\ dl.pc = "returned" => dl.completed = 1

\* gateway 1 failed on all its attempts, gateway 2 answered
C6_Witness ==
  /\ dl.pc = "returned"
  /\ Len(dl.urlsToTry) = Len(IPFS_GATEWAY_URLS)
  /\ dl.lastAttempt.tryIdx = 2
  /\ dl.attempts[1] = RETRY_CONFIG.maxRetries
  /\ dl.attempts[1] + dl.attempts[2] >= 2

\* C7: when every attempt on every candidate fails the call makes exactly
\* maxRetries attempts on each candidate, then throws the error of the last
\* attempt made, the final attempt on the final candidate, and returns nothing.
C7_ThrowsLastErrorAfterAllAttempts ==
  /\ dl.pc = "thrown" =>
       /\ \A c \in Candidates : dl.attempts[c] = RETRY_CONFIG.maxRetries
       /\ dl.lastAttempt.tryIdx = Len(dl.urlsToTry)
       /\ dl.lastAttempt.attempt = RETRY_CONFIG.maxRetries - 1
       /\ dl.thrown = ErrorOf(dl.lastAttempt.outcome)
       /\ dl.result = NoResult
  /\ (DlEnded /\ dl.completed = 0) => dl.pc = "thrown"

C7_Witness ==
  /\ dl.pc = "thrown"
  /\ Len(dl.urlsToTry) = Len(IPFS_GATEWAY_URLS)
  /\ dl.answered2xx > 0
  /\ dl.thrown = "AbortError"

(***************************************************************************)
(* Properties of the classifier                                            *)
(***************************************************************************)
ClsDone == cls.pc = "done"

Trimmed == TrimTok(cls.url.str)

\* new URL(s) accepts s: an absolute URL
ParsesAsUrl(s) ==
  \/ UrlParses(s)
  \/ s # <<>> /\ s[1] \in { <<"data:">>, <<"ipfs://">>, <<"ar://">> }

IsNullish == cls.url.kind \in {"null", "undefined"}
IsEmptyString == cls.url.kind = "string" /\ cls.url.str = <<>>
IsBlankString == cls.url.kind = "string" /\ cls.url.str # <<>> /\ Trimmed = <<>>
IsUnparsable == cls.url.kind = "string" /\ Trimmed # <<>> /\ ~ParsesAsUrl(Trimmed)

CentralizedAtRisk ==
  /\ cls.result.value.type = "centralized"
  /\ cls.result.value.isAtRisk

SchemeMarkers == { <<"ipfs://">>, <<"ar://">>, <<"data:">> }

\* the hostname new URL() gives for a string; the URL parser strips the
\* spaces around its input
HostnameOf(s) == getHost(TrimTok(s))

\* the labels of host end with the labels of gateway: the same host, or a
\* dotted subdomain of it
SameOrSubdomain(host, gateway) ==
  /\ Len(host) >= Len(gateway)
  /\ \A j \in DOMAIN gateway : host[Len(host) - Len(gateway) + j] = gateway[j]

OnKnownGateway(s) ==
  /\ HostnameOf(s) # NoHost
  /\ HostnameOf(s) # <<>>
  /\ \E gateway \in Range(IPFS_GATEWAY_HOSTS) \cup Range(ARWEAVE_GATEWAY_HOSTS) :
       SameOrSubdomain(HostnameOf(s), gateway)

\* s starts with ipfs://, ar:// or data:, contains /ipfs/<cid>, is a raw CID,
\* or has the hostname of a known gateway or of one of its subdomains
HasSafeMarker(s) ==
  \/ s # <<>> /\ s[1] \in SchemeMarkers
  \/ IpfsPathMatch(s) # {}
  \/ isIpfsCid(s)
  \/ OnKnownGateway(s)

RiskIffCentralized ==
  cls.result.value.isAtRisk <=> cls.result.value.type = "centralized"

\* C14 as stated: an input bearing a safe marker is not at risk, every other
\* input is centralized and at risk, so at risk exactly when centralized.
C14_SafeMarkersOnTheInput ==
  ClsDone =>
    /\ ~cls.result.threw
    /\ (cls.url.kind = "string" /\ HasSafeMarker(cls.url.str))
         => ~cls.result.value.isAtRisk
    /\ ~(cls.url.kind = "string" /\ HasSafeMarker(cls.url.str))
         => CentralizedAtRisk
    /\ RiskIffCentralized

\* C14, amended: the markers are looked for in the input with the whitespace
\* around it removed; an input bearing one is not at risk, every other input
\* is centralized and at risk, so at risk exactly when centralized.
C14_SafeMarkersOnTheTrimmedInput ==
  ClsDone =>
    /\ ~cls.result.threw
    /\ (cls.url.kind = "string" /\ HasSafeMarker(Trimmed))
         => ~cls.result.value.isAtRisk
    /\ ~(cls.url.kind = "string" /\ HasSafeMarker(Trimmed))
         => CentralizedAtRisk
    /\ RiskIffCentralized

\* a subdomain of a gateway, written in capitals or not, between blanks
C14_Witness ==
  /\ ClsDone
  /\ cls.url.kind = "string"
  /\ Len(Trimmed) >= 2
  /\ Trimmed[2] = <<"host", "sub", "ipfs", "io">>
  /\ IpfsPathMatch(Trimmed) = {}
  /\ Trimmed # cls.url.str
  /\ cls.result.value.type = "ipfs"
  /\ ~cls.result.value.isAtRisk

(***************************************************************************)
(* Properties of the backup run                                            *)
(***************************************************************************)
BkRunning == bk.pc # "idle"

Selected == bk.nftsToBackup

EntryIsFor(entry, nft) ==
  /\ Get(entry, "contractAddress") = nft.contractAddress
  /\ Get(entry, "tokenId") = nft.tokenId

\* the selected assets are assets of the discovery, in its order
InDiscoveryOrder ==
  \E f \in [DOMAIN Selected -> 1..bk.analyzed] :
    /\ \A k \in DOMAIN Selected : bk.nfts[f[k]] = Selected[k].nft
    /\ \A j \in DOMAIN Selected : \A k \in DOMAIN Selected : j < k => f[j] < f[k]

HasBadPath(nft) ==
  \/ ~sanitizePathSegment(nft.contractAddress).ok
  \/ ~sanitizePathSegment(nft.tokenId).ok

\* every downloadAsset call made for the asset threw
AllDownloadsFailed(d) ==
  /\ d.image.calls + d.animation.calls > 0
  /\ d.image.file = Absent
  /\ d.animation.file = Absent

\* C8: whatever downloads fail, the run records one entry per selected asset,
\* in discovery order, and calls writeManifestWithHistory exactly once, after
\* the last asset; the run is aborted only by an invalid path segment, never
\* by a download.
C8_DownloadFailuresDoNotAbort ==
  BkRunning =>
    /\ bk.writeCalls <= 1
    /\ InDiscoveryOrder
    /\ Len(bk.entries) <= Len(Selected)
    /\ Len(bk.downloads) = Len(bk.entries)
    /\ \A k \in DOMAIN bk.entries : EntryIsFor(bk.entries[k], Selected[k].nft)
    /\ bk.writeCalls = 1 => Len(bk.entries) = Len(Selected)
    /\ (bk.pc = "done" /\ Len(Selected) > 0) => bk.writeCalls = 1
    /\ bk.pc = "failed" =>
         /\ bk.i < Len(Selected)
         /\ HasBadPath(Selected[bk.i + 1].nft)

\* two selected assets, every download of the first failed, manifest written
C8_Witness ==
  /\ BkRunning
  /\ bk.pc = "done"
  /\ bk.writeCalls = 1
  /\ Len(bk.entries) = 2
  /\ AllDownloadsFailed(bk.downloads[1])
  /\ bk.downloads[1].image.calls = 2

\* C9: an asset all of whose media downloads failed has an entry with a
\* non-empty error and is counted in summary.failed, not in summary.backedUp.
C9_FailedDownloadsAreRecorded ==
  BkRunning =>
    /\ \A k \in DOMAIN bk.entries :
         AllDownloadsFailed(bk.downloads[k]) => Get(bk.entries[k], "error") # Absent
    /\ bk.summary.failed =
         Cardinality({k \in DOMAIN bk.entries : Get(bk.entries[k], "error") # Absent})
    /\ bk.summary.backedUp =
         Cardinality({k \in DOMAIN bk.entries : Get(bk.entries[k], "error") = Absent})

(***************************************************************************)
(* Properties of the storage report                                        *)
(***************************************************************************)
AnDone == an.pc = "done"

\* the analyses present in the report, in the order tokenUri, image, animation
PresentAnalyses ==
  SelectSeq(<<an.report.tokenUri, an.report.image, an.report.animation>>,
            LAMBDA a : a # NoAnalysis)

AtRiskAnalyses == SelectSeq(PresentAnalyses, LAMBDA a : a.isAtRisk)

NoneAtRisk == \A i \in DOMAIN PresentAnalyses : ~PresentAnalyses[i].isAtRisk
AllAtRisk == \A i \in DOMAIN PresentAnalyses : PresentAnalyses[i].isAtRisk

HasTokenUri == Truthy(an.nft.tokenUri)

\* C11: the report is fully decentralized exactly when no analysis present in
\* it (tokenUri always, image and animation when present) is at risk.
C11_FullyDecentralizedIffNoneAtRisk ==
  AnDone =>
    /\ an.report.tokenUri # NoAnalysis
    /\ an.report.isFullyDecentralized <=> NoneAtRisk

\* safe token URI and image, at-risk animation: not fully decentralized
C11_Witness ==
  /\ AnDone
  /\ ~an.report.tokenUri.isAtRisk
  /\ an.report.image # NoAnalysis /\ ~an.report.image.isAtRisk
  /\ an.report.animation # NoAnalysis /\ an.report.animation.isAtRisk
  /\ ~an.report.isFullyDecentralized

C13_StatusFollowsTheAnalyses ==
  AnDone =>
    /\ an.status = (IF an.report.isFullyDecentralized THEN "decentralized"
                    ELSE IF ~NoneAtRisk /\ ~AllAtRisk THEN "mixed"
                    ELSE "at-risk")
    /\ an.status = "decentralized" <=> NoneAtRisk
    /\ an.status = "at-risk" <=> AllAtRisk
    /\ an.status = "mixed" <=> (~NoneAtRisk /\ ~AllAtRisk)

C13_Witness ==
  /\ AnDone
  /\ an.status = "mixed"
  /\ an.report.tokenUri.isAtRisk
  /\ an.report.image # NoAnalysis /\ ~an.report.image.isAtRisk

(***************************************************************************)
(* Properties of getExtensionFromUrl                                       *)
(***************************************************************************)
ExtDone == ext.pc = "done"

\* the extension the MIME table gives the content types of the model, read
\* without letter case, parameters and surrounding blanks; Absent when the
\* content type is absent or not in the table
TableExtension(contentType) ==
  CASE contentType \in { <<"image/png">>, <<"IMAGE/PNG">>, <<" ", "image/png", " ">>,
                         <<"image/png", ";", " ", "charset=utf-8">> } -> PngExt
    [] contentType = <<"Image/Jpeg">> -> JpgExt
    [] contentType = <<"video/mp4">> -> <<DOT, 109, 112, 52>>
    [] OTHER -> Absent

\* the characters after the last dot of the path, when there are some and
\* they are letters and digits; Absent otherwise
LastDottedSegment(path) ==
  LET dots == {i \in DOMAIN path : path[i] = DOT}
  IN IF dots = {} THEN Absent
     ELSE LET d == CHOOSE i \in dots : \A j \in dots : j <= i
              segment == SubSeq(path, d + 1, Len(path))
          IN IF segment # <<>> /\ \A i \in DOMAIN segment : Alnum(segment[i])
             THEN segment ELSE Absent

\* C22: the extension is the one the MIME table gives the content type,
\* whatever the URL; without a mapped content type it is the lowercased last
\* dotted segment of the path of the URL, query and fragment ignored, and
\* .bin when the path has none.
C22_ExtensionFromTypeThenPath ==
  ExtDone =>
    LET mapped == TableExtension(ext.contentType)
        segment == LastDottedSegment(ext.url.path)
    IN ext.result = IF mapped # Absent THEN mapped
                    ELSE IF segment # Absent THEN <<DOT>> \o ToLowerCase(segment)
                    ELSE BinExt

(***************************************************************************)
(* Properties of interleaved and interrupted writeManifestWithHistory calls*)
(***************************************************************************)
BothCompleted == Len(wr) = 2 /\ \A i \in DOMAIN wr : wr[i].pc = "done"

\* the canonical paths of the calls in progress or completed
PathsOf(calls) ==
  { ManifestRelPath(getManifestPath(calls[i].chainName, calls[i].walletAddress).value.name) :
      i \in DOMAIN calls }

\* C23: when two interleaved calls for different keys have both completed,
\* the index and the gallery bundle list the manifests of both keys.
C23_InterleavedWritesListBoth ==
  BothCompleted =>
    /\ PathsOf(wr) \subseteq ListedPaths(fs.manifests[IndexName])
    /\ PathsOf(wr) \subseteq ListedPaths(fs.gallery.index)
    /\ PathsOf(wr) \subseteq DOMAIN fs.gallery.manifests

\* the call followed step by step, while no whole call has been made since
Followed == wr # <<>> /\ last = NoCall

SteppedPath == getManifestBaseName(wr[1].chainName, wr[1].walletAddress).value \o JsonExt

SteppedHadCanonical ==
  /\ Followed
  /\ SteppedPath \in DOMAIN wr[1].before.manifests
  /\ wr[1].before.manifests[SteppedPath].wellFormed

ContentBefore == wr[1].before.manifests[SteppedPath]

\* C24: at every step of a call, and after the process died at any step,
\* the content the canonical file had before the call is still there, whole,
\* in the canonical file or in a history snapshot of the same key.
C24_PreviousContentSurvives ==
  SteppedHadCanonical =>
    \/ /\ SteppedPath \in DOMAIN fs.manifests
       /\ fs.manifests[SteppedPath] = ContentBefore
    \/ \E n \in DOMAIN fs.history \cap SnapshotNamesOf(wr[1].chainName, wr[1].walletAddress) :
         fs.history[n] = ContentBefore

OtherKeys ==
  { k \in ChainNames \X (Wallets \cup DottedWallets) :
      k # <<last.chainName, last.walletAddress>> }

HistoryOfKeyUntouched(k) ==
  \A n \in DOMAIN last.before.history \cap SnapshotNamesOf(k[1], k[2]) :
    n \in DOMAIN fs.history /\ fs.history[n] = last.before.history[n]

CanonicalOfKeyUntouched(k) ==
  LET p == getManifestBaseName(k[1], k[2]).value \o JsonExt
  IN p \in DOMAIN last.before.manifests =>
       p \in DOMAIN fs.manifests /\ fs.manifests[p] = last.before.manifests[p]

RunRecordsUntouched ==
  \A n \in DOMAIN last.before.runs :
    n \in DOMAIN fs.runs /\ fs.runs[n] = last.before.runs[n]

\* C25: a call for one (chain, wallet) deletes or changes no history
\* snapshot, no run record and no canonical file of another (chain, wallet),
\* also when one key is a dotted prefix of the other.
C25_OtherKeysUntouched ==
  last.made =>
    /\ \A k \in OtherKeys : HistoryOfKeyUntouched(k) /\ CanonicalOfKeyUntouched(k)
    /\ RunRecordsUntouched

\* what of the call followed step by step can be seen in the output root
Changed(dir, before, name) ==
  name \in DOMAIN dir /\ (name \in DOMAIN before => dir[name] # before[name])

SnapshotCopied ==
  WriteFile(wr[1].before.history,
            getUniqueHistoryPath(wr[1].before.history,
              getManifestBaseName(wr[1].chainName, wr[1].walletAddress).value,
              formatTimestampForFilename(now)),
            ContentBefore)

HistoryPruned ==
  pruneHistorySnapshots(SnapshotCopied,
    getManifestBaseName(wr[1].chainName, wr[1].walletAddress).value,
    MANIFEST_HISTORY_LIMIT)

HistoryTouched == fs.history # wr[1].before.history

HistoryComplete ==
  fs.history = IF SteppedPath \in DOMAIN wr[1].before.manifests
               THEN HistoryPruned ELSE wr[1].before.history

RunRecordBegun == DOMAIN fs.runs # DOMAIN wr[1].before.runs

RunRecordComplete ==
  \E n \in DOMAIN fs.runs \ DOMAIN wr[1].before.runs : fs.runs[n] # TornFile

CanonicalBegun == Changed(fs.manifests, wr[1].before.manifests, SteppedPath)

CanonicalComplete ==
  /\ SteppedPath \in DOMAIN fs.manifests
  /\ fs.manifests[SteppedPath] = JsonStringifyManifest(wr[1].manifest)

IndexBegun == Changed(fs.manifests, wr[1].before.manifests, IndexName)

IndexComplete == IndexBegun /\ fs.manifests[IndexName] # TornFile

BundleBegun == fs.gallery # wr[1].before.gallery

\* C26: within one call the effects come in a fixed order: the directories,
\* the reading of the existing canonical file, the history copy, the pruning,
\* the run record, the overwrite of the canonical file, the index, the
\* bundle; an effect is seen in the output root only when the ones before it
\* are complete.
C26_EffectsInFixedOrder ==
  Followed =>
    /\ (HistoryTouched \/ RunRecordBegun \/ CanonicalBegun)
         => {"manifests", "history", "runs"} \subseteq fs.dirs
    /\ HistoryTouched =>
         /\ SteppedPath \in DOMAIN wr[1].before.manifests
         /\ JsonParseManifest(ContentBefore).ok
    /\ ~RunRecordBegun =>
         \/ ~HistoryTouched
         \/ /\ DOMAIN fs.history = DOMAIN SnapshotCopied
            /\ \A n \in DOMAIN wr[1].before.history :
                 fs.history[n] = wr[1].before.history[n]
         \/ HistoryComplete
    /\ RunRecordBegun => HistoryComplete
    /\ CanonicalBegun => RunRecordComplete
    /\ IndexBegun => CanonicalComplete
    /\ BundleBegun => IndexComplete

\* a call that had a canonical file to copy has completed
C26_Witness ==
  /\ Followed
  /\ wr[1].pc = "done"
  /\ wr[1].hasExisting
  /\ HistoryTouched
  /\ RunRecordComplete
  /\ CanonicalComplete
  /\ IndexComplete
  /\ BundleBegun

\* the steps between the overwrite of the canonical file and the end of the
\* call at which the process can die
StaleWindow == {"indexWrite", "bundleWrite"}

DiedInStaleWindow ==
  /\ wr # <<>>
  /\ wr[1].crashes # <<>>
  /\ wr[1].crashes[Len(wr[1].crashes)] \in StaleWindow

\* a call has completed since, and nothing has happened after it
NextCallCompleted == last.made \/ (wr # <<>> /\ wr[1].pc = "done")

WholeCanonicalPaths ==
  {ManifestRelPath(n) : n \in {m \in DOMAIN fs.manifests \ {IndexName} :
                                 fs.manifests[m].wellFormed}}

\* C27: when the process died after the overwrite of the canonical file and
\* before the index and the bundle were regenerated, the next call that
\* completes, for any key, leaves an index and a bundle that list exactly
\* the canonical manifests that exist.
C27_NextCallRepairsIndex ==
  (DiedInStaleWindow /\ NextCallCompleted) =>
    /\ fs.manifests[IndexName] # TornFile
    /\ fs.gallery # TornFile
    /\ ListedPaths(fs.manifests[IndexName]) = WholeCanonicalPaths
    /\ Len(fs.manifests[IndexName].manifests) = Cardinality(WholeCanonicalPaths)
    /\ ListedPaths(fs.gallery.index) = WholeCanonicalPaths
    /\ DOMAIN fs.gallery.manifests = WholeCanonicalPaths

\* the index the process left behind did not list the manifest of the call
\* that died; the call made next, for another key, has put it right
C27_Witness ==
  /\ DiedInStaleWindow
  /\ last.made
  /\ last.walletAddress # wr[1].walletAddress
  /\ IndexName \in DOMAIN last.before.manifests
  /\ last.before.manifests[IndexName] # TornFile
  /\ ManifestRelPath(SteppedPath) \notin ListedPaths(last.before.manifests[IndexName])
  /\ ManifestRelPath(SteppedPath) \in ListedPaths(fs.manifests[IndexName])
  /\ ManifestRelPath(SteppedPath) \in DOMAIN fs.gallery.manifests

(***************************************************************************)
(* Properties of the attempts of downloadAsset                             *)
(***************************************************************************)
\* C28: every attempt ends, completed or aborted, no later than
\* REQUEST_TIMEOUT after it started, also when the server sends the response
\* headers and then stalls.
C28_AttemptEndsWithinRequestTimeout ==
  dl.elapsed <= REQUEST_TIMEOUT

DlEntered == dl.pc \notin {"idle", "called"}

RECURSIVE SumSeq(_)
SumSeq(q) == IF q = <<>> THEN 0 ELSE Head(q) + SumSeq(Tail(q))

TotalAttempts == SumSeq(dl.attempts)

\* C29: the candidates are tried in list order, each at most maxRetries
\* times and none again once a later one has been tried, so that a call
\* makes at most maxRetries times the number of candidates attempts.
C29_CandidatesInOrderBounded ==
  DlEntered =>
    /\ \A c \in Candidates : dl.attempts[c] <= RETRY_CONFIG.maxRetries
    /\ \A c \in Candidates : dl.attempts[c] > 0 =>
         /\ c <= dl.tryIdx
         /\ \A b \in 1..(c - 1) : dl.attempts[b] = RETRY_CONFIG.maxRetries
    /\ \A c \in Candidates : c < dl.tryIdx => dl.attempts[c] = RETRY_CONFIG.maxRetries
    /\ TotalAttempts <= RETRY_CONFIG.maxRetries * Len(dl.urlsToTry)

\* every gateway had all its attempts
C29_Witness ==
  /\ dl.pc = "thrown"
  /\ Len(dl.urlsToTry) = Len(IPFS_GATEWAY_URLS)
  /\ TotalAttempts = RETRY_CONFIG.maxRetries * Len(IPFS_GATEWAY_URLS)

\* min(baseDelay * 2^k, maxDelay), written out
ExpectedDelay(k) ==
  IF RETRY_CONFIG.baseDelay * (2 ^ k) < RETRY_CONFIG.maxDelay
  THEN RETRY_CONFIG.baseDelay * (2 ^ k)
  ELSE RETRY_CONFIG.maxDelay

\* C30: after the failed attempt number k (from 0) on a candidate the call
\* waits min(baseDelay * 2^k, maxDelay) before the next attempt on it, and
\* after the last attempt on a candidate it does not wait.
C30_BackoffBetweenAttempts ==
  /\ dl.pc = "backoff" =>
       /\ dl.lastAttempt.outcome \notin {"ok", "none"}
       /\ dl.lastAttempt.attempt = dl.attempt
       /\ dl.attempt < RETRY_CONFIG.maxRetries - 1
       /\ dl.delay = ExpectedDelay(dl.attempt)
  /\ dl.pc # "backoff" => dl.delay = 0
  /\ \A k \in 0..(2 * RETRY_CONFIG.maxRetries) : BackoffDelay(k) = ExpectedDelay(k)

\* the wait after the second failed attempt on a candidate
C30_Witness ==
  /\ dl.pc = "backoff"
  /\ dl.attempt = 1
  /\ dl.delay = 2 * RETRY_CONFIG.baseDelay

\* C31: when downloadAsset throws there is no file at the destination path
\* under any extension: no attempt has left a partial file behind.
C31_NoFileLeftAfterThrow ==
  dl.pc = "thrown" => DOMAIN dl.disk = {}

\* what follows the CID in the input URL
RestAfterCid(url) ==
  LET first == CHOOSE i \in IpfsPathMatch(url) : \A j \in IpfsPathMatch(url) : i <= j
  IN [cid |-> url[first + 1], rest |-> SubSeq(url, first + 2, Len(url))]

\* C32: for an input URL <base>/ipfs/<cid><rest> every candidate tried is
\* <gateway base><cid><rest>: the path and query after the CID are kept.
C32_CandidatesKeepPathAfterCid ==
  (DlEntered /\ IpfsPathMatch(dl.url) # {}) =>
    /\ Len(dl.urlsToTry) = Len(IPFS_GATEWAY_URLS)
    /\ \A g \in DOMAIN dl.urlsToTry :
         dl.urlsToTry[g] = IPFS_GATEWAY_URLS[g] \o <<RestAfterCid(dl.url).cid>>
                             \o RestAfterCid(dl.url).rest

(***************************************************************************)
(* Properties of the run records of one (chain, wallet)                    *)
(***************************************************************************)
\* the run records of the (chain, wallet) written last
RunRecordsOfKey ==
  { fs.runs[n] : n \in { m \in DOMAIN fs.runs :
      /\ fs.runs[m].chainName = last.chainName
      /\ fs.runs[m].walletAddress = last.walletAddress } }

\* the records applied in the order of their creation, the n-th call's
\* record being the one whose runId is the backupDate of that call
RECURSIVE Replay(_, _, _)
Replay(records, n, ids) ==
  IF n > writes THEN ids
  ELSE LET made == {r \in records : r.runId = Decimal(n)}
       IN IF made = {} THEN Replay(records, n + 1, ids)
          ELSE LET rec == CHOOSE r \in made : TRUE
               IN Replay(records, n + 1, (ids \cup Range(rec.added)) \ Range(rec.removed))

\* C33: after any sequence of completed writes for one (chain, wallet) that
\* started without canonical file, the run records applied in creation order
\* to the empty set give the Asset IDs of the current canonical manifest.
C33_RunRecordsReplayToManifest ==
  last.made =>
    /\ Replay(RunRecordsOfKey, 1, {}) = IdsOf(fs.manifests[last.path].doc)
    /\ Cardinality(RunRecordsOfKey) = Cardinality({ n \in 1..writes :
         \E r \in RunRecordsOfKey : r.runId = Decimal(n) })

\* three writes for one key, the collection replaced and put back
C33_Witness ==
  /\ last.made
  /\ Cardinality(RunRecordsOfKey) >= 3
  /\ \E r \in RunRecordsOfKey : r.removed # <<>>
  /\ \E r \in RunRecordsOfKey : r.added # <<>> /\ r.runId # Decimal(1)
  /\ Replay(RunRecordsOfKey, 1, {}) = IdsOf(last.manifest)

\* the (chain, wallet) pairs written so far: every call leaves a run record
KeysWritten == { <<fs.runs[n].chainName, fs.runs[n].walletAddress>> : n \in DOMAIN fs.runs }

\* C34: two different valid (chain, wallet) pairs have two different
\* canonical manifest paths, so that every pair written has its own file.
C34_DistinctKeysDistinctPaths ==
  /\ \A k1 \in KeysWritten : \A k2 \in KeysWritten :
       k1 # k2 => getManifestPath(k1[1], k1[2]).value # getManifestPath(k2[1], k2[2]).value
  /\ Cardinality(DOMAIN fs.manifests \ {IndexName}) = Cardinality(KeysWritten)

(***************************************************************************)
(* Properties of the order of the rules of classifyUrl                     *)
(***************************************************************************)
StartsWithTok(t, tok) == t # <<>> /\ t[1] = <<tok>>

\* whether the rule number r applies to the trimmed string: data:, ipfs://,
\* ar://, /ipfs/<cid> path, raw CID, IPFS gateway host, Arweave gateway host
RuleApplies(r, t) ==
  CASE r = 1 -> StartsWithTok(t, "data:")
    [] r = 2 -> StartsWithTok(t, "ipfs://")
    [] r = 3 -> StartsWithTok(t, "ar://")
    [] r = 4 -> \E i \in 1..(Len(t) - 1) : t[i] = <<"/ipfs/">> /\ Head(t[i + 1]) = "cid"
    [] r = 5 -> Len(t) = 1 /\ t[1] \in {CidV0, CidV1}
    [] r = 6 -> getHost(t) \notin {NoHost, <<>>}
                  /\ hostMatchesPatterns(getHost(t), IPFS_GATEWAY_HOSTS)
    [] r = 7 -> getHost(t) \notin {NoHost, <<>>}
                  /\ hostMatchesPatterns(getHost(t), ARWEAVE_GATEWAY_HOSTS)

\* the first rule that applies, 8 when none does
FirstRule(t) ==
  IF \E r \in 1..7 : RuleApplies(r, t)
  THEN CHOOSE r \in 1..7 : RuleApplies(r, t) /\ \A q \in 1..(r - 1) : ~RuleApplies(q, t)
  ELSE 8

TypeOfRule(r) ==
  CASE r = 1 -> "data-uri"
    [] r \in {2, 4, 5, 6} -> "ipfs"
    [] r \in {3, 7} -> "arweave"
    [] r = 8 -> "centralized"

\* C35: the rules are applied in the order data:, ipfs://, ar://, /ipfs/<cid>
\* path, raw CID, IPFS gateway host, Arweave gateway host and the first that
\* applies decides; a URL with an /ipfs/<cid> path on any host is ipfs with
\* no host recorded, and the host is recorded exactly when the decision is
\* made on the hostname.
C35_FirstMatchingRuleDecides ==
  (cls.pc = "done" /\ Truthy(cls.url)) =>
    LET r == FirstRule(Trimmed)
        res == cls.result.value
    IN /\ ~cls.result.threw
       /\ res.type = TypeOfRule(r)
       /\ res.isAtRisk = (r = 8)
       /\ res.host # NoHost <=> (r \in {6, 7, 8} /\ getHost(Trimmed) \notin {NoHost, <<>>})
       /\ (RuleApplies(4, Trimmed) /\ (StartsWithTok(Trimmed, "https://")
                                         \/ StartsWithTok(Trimmed, "http://")))
            => res.type = "ipfs" /\ res.host = NoHost

\* an /ipfs/<cid> path on an Arweave gateway host
C35_Witness ==
  /\ cls.pc = "done"
  /\ Truthy(cls.url)
  /\ RuleApplies(4, Trimmed)
  /\ RuleApplies(7, Trimmed)
  /\ cls.result.value.type = "ipfs"
  /\ cls.result.value.host = NoHost

(***************************************************************************)
(* Properties of the backup loop, step by step                             *)
(***************************************************************************)
BkStepping == BkRunning /\ "calls" \in DOMAIN bk

\* the backupNFT calls that have not been recorded yet
CallsInProgress == {k \in DOMAIN bk.calls : bk.calls[k].pc # "recorded"}

\* the downloadAsset calls in flight
DownloadsInFlight == {k \in DOMAIN bk.calls : bk.calls[k].inFlight}

\* C36, as stated: the metadata of asset i+1 is fetched and classified only
\* after the entry of asset i has been recorded (a selected asset has been
\* fetched and classified, its report is in nftsToBackup), no two
\* downloadAsset calls are in flight together, and writeManifestWithHistory
\* starts only after the last entry.
C36_OneAssetAtATime ==
  BkStepping =>
    /\ \A k \in DOMAIN Selected : k > 1 => Len(bk.entries) >= k - 1
    /\ Cardinality(DownloadsInFlight) <= 1
    /\ bk.writeCalls > 0 => Len(bk.entries) = Len(Selected)

\* C36, amended: the analysis loop fetches and classifies every asset before
\* the first entry; in the backup loop the backupNFT call of asset i+1 (its
\* metadata fetch, classification and downloads) starts only after the entry
\* of asset i has been recorded, at most one call and one downloadAsset are
\* in progress, and writeManifestWithHistory starts only after the last entry.
C36_OneAssetAtATimeInBackupLoop ==
  BkStepping =>
    /\ bk.pc = "analyze" => bk.entries = <<>> /\ bk.began = 0
    /\ bk.began > 0 => bk.analyzed = Len(bk.nfts)
    /\ DOMAIN bk.calls = 1..bk.began
    /\ \A k \in DOMAIN bk.calls : Len(bk.entries) >= k - 1
    /\ Cardinality(CallsInProgress) <= 1
    /\ Cardinality(DownloadsInFlight) <= 1
    /\ DownloadsInFlight \subseteq CallsInProgress
    /\ bk.writeCalls > 0 =>
         /\ Len(bk.entries) = Len(Selected)
         /\ CallsInProgress = {}

\* the second asset has a download in flight, the first one is recorded
C36_Witness ==
  /\ BkStepping
  /\ bk.began = 2
  /\ Len(bk.entries) = 1
  /\ DownloadsInFlight = {2}
  /\ bk.calls[1].got["image"].calls = 2

\* downloadAsset has been called for the medium of the call, or is in flight
DownloadCalled(c, medium) ==
  \/ c.got[medium].calls > 0
  \/ c.inFlight /\ c.pc = medium

\* C37: without --all, downloadAsset is called for the image of an asset only
\* if its image URL was classified at-risk, and for its animation only if its
\* animation URL was classified at-risk; a medium classified safe is never
\* downloaded, even in an asset selected for another of its URLs.
C37_OnlyAtRiskMediaDownloaded ==
  (BkStepping /\ ~bk.options.all) =>
    \A k \in DOMAIN bk.calls : \A medium \in Media :
      DownloadCalled(bk.calls[k], medium) =>
        /\ bk.calls[k].storageReport.present
        /\ AnalysisOf(bk.calls[k], medium) # NoAnalysis
        /\ AnalysisOf(bk.calls[k], medium).isAtRisk

\* an asset selected for its animation: the animation is downloaded, the safe
\* image, which has a URL, is not
C37_Witness ==
  /\ BkStepping
  /\ ~bk.options.all
  /\ \E k \in DOMAIN bk.calls :
       /\ bk.calls[k].pc = "recorded"
       /\ bk.calls[k].urls["image"] # <<>>
       /\ AnalysisOf(bk.calls[k], "image") # NoAnalysis
       /\ ~AnalysisOf(bk.calls[k], "image").isAtRisk
       /\ bk.calls[k].got["image"].calls = 0
       /\ bk.calls[k].got["animation"].calls > 0

(***************************************************************************)
(* Properties of the backup run, continued                                 *)
(***************************************************************************)
\* the segment holds a slash, a backslash or '..'
Traverses(segment) ==
  \/ Includes(segment, <<SLASH>>)
  \/ Includes(segment, <<BSLASH>>)
  \/ Includes(segment, <<DOT, DOT>>)

\* the selected assets whose contract address or token id does
TraversingAssets ==
  {k \in DOMAIN Selected :
     Traverses(Selected[k].nft.contractAddress) \/ Traverses(Selected[k].nft.tokenId)}

\* C38: when the contract address or the token id of a selected asset holds
\* a slash, a backslash or '..', the run does not get past that asset: it
\* fails there with exit code 1 and the message 'Invalid path segment', and
\* writes no manifest, run record or snapshot, whatever came before.
C38_InvalidSegmentFailsTheRun ==
  (BkRunning /\ TraversingAssets # {}) =>
    /\ bk.pc \in {"analyze", "backup", "failed"}
    /\ \A k \in TraversingAssets : bk.i < k
    /\ bk.writeCalls = 0
    /\ fs = EmptyRoot
    /\ bk.pc = "failed" =>
         /\ bk.i + 1 \in TraversingAssets
         /\ bk.exitCode = 1
         /\ bk.message = "Invalid path segment"

\* the run failed at the token id of its second asset, the first is recorded
C38_Witness ==
  /\ BkRunning
  /\ bk.pc = "failed"
  /\ bk.exitCode = 1
  /\ Len(bk.entries) = 1
  /\ TraversingAssets = {2}
  /\ Traverses(Selected[2].nft.tokenId)
  /\ fs = EmptyRoot

\* the manifests in the canonical files of the store
WrittenManifests ==
  { fs.manifests[n].doc :
      n \in { m \in DOMAIN fs.manifests : m # IndexName /\ fs.manifests[m] # TornFile } }

\* C39: in every manifest written by a backup run backedUp + failed is the
\* number of entries of nfts and is summary.atRisk, and totalNFTs is
\* fullyDecentralized + atRisk; at every point of the run backedUp + failed is
\* the number of entries recorded so far.
C39_SummaryCountsAddUp ==
  BkRunning =>
    /\ bk.summary.backedUp + bk.summary.failed = Len(bk.entries)
    /\ bk.writeCalls > 0 => WrittenManifests # {}
    /\ \A m \in WrittenManifests :
         /\ Len(m.nfts) = Len(bk.entries)
         /\ m.summary.backedUp + m.summary.failed = Len(m.nfts)
         /\ m.summary.atRisk = Len(m.nfts)
         /\ m.summary.totalNFTs = m.summary.fullyDecentralized + m.summary.atRisk
         /\ m.summary.totalNFTs = Len(bk.nfts)

\* a manifest of a run with --all: one asset backed up, a fully decentralized
\* one, and one failed
C39_Witness ==
  /\ BkRunning
  /\ bk.options.all
  /\ \E m \in WrittenManifests :
       /\ m.summary.backedUp = 1
       /\ m.summary.failed = 1
       /\ Len(m.nfts) = 2
  /\ \E k \in DOMAIN Selected : Selected[k].report.isFullyDecentralized

(***************************************************************************)
(* Properties of fetchWithRetry                                            *)
(***************************************************************************)
FwRunning == fw.pc # "idle"

\* the n-th answer is a response with a 4xx status other than 429
ClientErrorAt(n) ==
  /\ fw.answers[n].kind = "response"
  /\ ClientErrorNot429(fw.answers[n].status)

\* the n-th answer is a response with a 5xx status or 429
RetriableAt(n) ==
  /\ fw.answers[n].kind = "response"
  /\ (fw.answers[n].status >= 500 \/ fw.answers[n].status = 429)

\* C40: after a 4xx response other than 429 fetchWithRetry makes no further
\* attempt and throws the HTTP error of that response; 5xx and 429 responses
\* are retried, up to maxRetries attempts in total.
C40_ClientErrorsNotRetried ==
  FwRunning =>
    /\ Len(fw.answers) <= RETRY_CONFIG.maxRetries
    /\ \A n \in DOMAIN fw.answers :
         ClientErrorAt(n) =>
           /\ n = Len(fw.answers)
           /\ fw.pc = "thrown"
           /\ fw.thrown = HttpStatusError(fw.answers[n].status)
    /\ \A n \in DOMAIN fw.answers :
         (RetriableAt(n) /\ n = Len(fw.answers) /\ n < RETRY_CONFIG.maxRetries) =>
           fw.pc = "fetch"

====
